---- MODULE Spec2Model ----
(***************************************************************************)
(* Model of the ha_linky integration: the sync orchestrator                *)
(* (coordinator.py), the tiered fetch (api.py), the statistics helpers     *)
(* (statistics_helper.py) and the cost engine (cost.py).                   *)
(*                                                                         *)
(* Conventions.                                                            *)
(*  - A datetime is an integer number of minutes since day 0 00:00; a date *)
(*    is an integer day number; day 0 is a Monday.                         *)
(*  - A float quantity (Wh, EUR, EUR/kWh) is an integer number of          *)
(*    thousandths (0.001 is 1), so that round(x, 2) and round(x) are     *)
(*    computed exactly, ties to even as Python does.                       *)
(*  - Python's None is the integer None (-1) where the other values are    *)
(*    non-negative integers, and the empty string where they are strings.  *)
(*  - A datetime read from an ISO string is its wall-clock minutes (date,  *)
(*    timestamp, start) with, beside it, the UTC offset the string carries *)
(*    (tz, in minutes), or Naive when it carries none.                     *)
(***************************************************************************)
EXTENDS Integers, Sequences, FiniteSets, TLC

None == 0 - 1

\* minutes in a day, minutes in an hour
DayMin == 24 * 60

HourMin == 1 * 60

\* datetime.date()
DateOf(t) == t \div DayMin

\* datetime.hour
HourOf(t) == (t % DayMin) \div HourMin

\* datetime.minute
MinuteOf(t) == t % HourMin

\* datetime.weekday(): Monday is 0
WeekdayOf(t) == DateOf(t) % 7

\* a date taken as a datetime (date.isoformat() parsed back): midnight
Midnight(d) == d * DayMin

\* the tz of a datetime without UTC offset
Naive == None

\* datetime comparison (<, >) raises TypeError between a naive and an aware
\* datetime
Incomparable(tz1, tz2) == (tz1 = Naive) # (tz2 = Naive)

\* what two comparable datetimes are ordered by: the wall clock when both
\* are naive, the UTC instant when both are aware
Ordinal(t, tz) == IF tz = Naive THEN t ELSE t - tz

\* Python round(): n/d to the nearest integer, ties to the even one (d > 0)
RoundHalfEven(n, d) ==
    LET q == n \div d
        r == n % d
    IN  IF 2 * r < d THEN q
        ELSE IF 2 * r > d THEN q + 1
        ELSE IF q % 2 = 0 THEN q ELSE q + 1

RECURSIVE SumSeq(_)
SumSeq(s) == IF s = <<>> THEN 0 ELSE Head(s) + SumSeq(Tail(s))

RECURSIVE SortedSeq(_)
\* sorted(keys): the ascending sequence of a finite set of integers
SortedSeq(S) ==
    IF S = {} THEN <<>>
    ELSE LET m == CHOOSE x \in S : \A y \in S : x <= y
         IN  <<m>> \o SortedSeq(S \ {m})

RECURSIVE Flatten(_)
\* all_points.extend(tier) for tier in history
Flatten(h) == IF h = <<>> THEN <<>> ELSE Head(h) \o Flatten(Tail(h))

(***************************************************************************)
(* statistics_helper.py: normalizer, aggregator, cumulative builder        *)
(***************************************************************************)

\* re.search(r"\d+", interval_str): the number of the descriptor, None when
\* the descriptor holds no digit
\* the characters of an interval descriptor
DescriptorChars(s) ==
    CASE s = "PT30M" -> <<"P", "T", "3", "0", "M">>
      [] s = "PT60M" -> <<"P", "T", "6", "0", "M">>
      [] s = "PT15M" -> <<"P", "T", "1", "5", "M">>
      [] s = "PT10M" -> <<"P", "T", "1", "0", "M">>
      [] s = "PTM" -> <<"P", "T", "M">>
      [] OTHER -> <<>>

DigitValue(ch) ==
    CASE ch = "0" -> 0 [] ch = "1" -> 1 [] ch = "2" -> 2 [] ch = "3" -> 3
      [] ch = "4" -> 4 [] ch = "5" -> 5 [] ch = "6" -> 6 [] ch = "7" -> 7
      [] ch = "8" -> 8 [] ch = "9" -> 9 [] OTHER -> None

RECURSIVE DigitRun(_, _, _)
\* the value of the run of digits that starts at position i, acc being the
\* value of the digits before i
DigitRun(chars, i, acc) ==
    IF i > Len(chars) \/ DigitValue(chars[i]) = None THEN acc
    ELSE DigitRun(chars, i + 1, 10 * acc + DigitValue(chars[i]))

\* re.search(r"\d+", s): the first run of digits, None without a digit
IntervalDigits(s) ==
    LET chars == DescriptorChars(s)
        at == {i \in 1..Len(chars) : DigitValue(chars[i]) # None}
    IN  IF at = {} THEN None
        ELSE DigitRun(chars, CHOOSE i \in at : \A j \in at : i <= j, 0)

\* r["date"] / r["value"] raise KeyError on a reading without the field
ReadingRaises(r) == r.date = None \/ r.value = None

format_daily_point(r) == [date |-> r.date, tz |-> r.tz, value |-> r.value]

\* a reading that keeps the reported interval end
format_load_curve_point_KeepsEnd(r) ==
    [date |-> r.date, tz |-> r.tz, value |-> r.value]

format_load_curve_point(r) ==
    LET d == IntervalDigits(r.interval_length)
        minutes == IF d # None THEN d ELSE 1
    IN  [date |-> r.date - minutes, tz |-> r.tz, value |-> r.value]

\* coordinator._format_raw_data: each reading classified by interval_length
FormatRawRaises(raw) == \E i \in 1..Len(raw) : ReadingRaises(raw[i])

FormatOne(r) ==
    IF r.interval_length # "" THEN format_load_curve_point(r)
    ELSE format_daily_point(r)

format_raw_data(raw) == [i \in 1..Len(raw) |-> FormatOne(raw[i])]

\* format_daily_data / format_load_curve on a list of readings
format_daily_data(readings) ==
    [i \in 1..Len(readings) |-> format_daily_point(readings[i])]

format_load_curve(readings) ==
    [i \in 1..Len(readings) |-> format_load_curve_point(readings[i])]

\* dt.replace(minute=0, second=0, microsecond=0)
HourKey(t) == t - MinuteOf(t)

\* key = hour_dt.isoformat(): the hour and the UTC offset of the point
GroupKey(point) == <<HourKey(point.date), point.tz>>

\* the order of the keys as strings: the wall-clock part first, then the
\* offset suffix (none, "+00:00", "+01:00", ...: offsets east of UTC)
KeyBefore(a, b) == a[1] < b[1] \/ (a[1] = b[1] /\ a[2] < b[2])

RECURSIVE SortedKeys(_)
\* sorted(grouped.keys())
SortedKeys(S) ==
    IF S = {} THEN <<>>
    ELSE LET m == CHOOSE x \in S : \A y \in S \ {x} : KeyBefore(x, y)
         IN  <<m>> \o SortedKeys(S \ {m})

group_by_hour(data) ==
    LET keys == {GroupKey(data[i]) : i \in 1..Len(data)}
        sorted == SortedKeys(keys)
        vals(k) == {i \in 1..Len(data) : GroupKey(data[i]) = k}
        total(k) == SumSeq([j \in 1..Cardinality(vals(k)) |->
                       data[SortedSeq(vals(k))[j]].value])
        \* round(sum / len, 2) on thousandths
        avg(k) == 10 * RoundHalfEven(total(k), 10 * Cardinality(vals(k)))
    IN  [i \in 1..Len(sorted) |->
            [date |-> sorted[i][1], tz |-> sorted[i][2], value |-> avg(sorted[i])]]

RECURSIVE CumSum(_, _)
CumSum(data, i) == IF i = 0 THEN 0 ELSE data[i].value + CumSum(data, i - 1)

\* a builder that does not carry the previous sum
format_as_statistics_NoCarry(data) ==
    [i \in 1..Len(data) |->
        [start |-> data[i].date, tz |-> data[i].tz, state |-> data[i].value,
         sum |-> data[i].value]]

format_as_statistics(data) ==
    [i \in 1..Len(data) |->
        [start |-> data[i].date, tz |-> data[i].tz, state |-> data[i].value,
         sum |-> CumSum(data, i)]]

\* an offset applied to the states as well
increment_sums_AlsoState(data, base_sum) ==
    [i \in 1..Len(data) |->
        [start |-> data[i].start, tz |-> data[i].tz,
         state |-> data[i].state + base_sum, sum |-> data[i].sum + base_sum]]

increment_sums(data, base_sum) ==
    [i \in 1..Len(data) |->
        [start |-> data[i].start, tz |-> data[i].tz, state |-> data[i].state,
         sum |-> data[i].sum + base_sum]]

\* the list passed to increment_sums, after the call: the comprehension
\* builds new StatisticDataPoints and assigns to nothing of data
increment_sums_input(data, base_sum) == data

(***************************************************************************)
(* cost.py: the cost engine                                                *)
(*                                                                         *)
(* A cost rule is a record                                                 *)
(*   [price, entity_id, start_date, end_date, weekday, after, before]      *)
(* with price in thousandths of EUR/kWh or None, entity_id a string ("" =  *)
(* absent), start_date / end_date a datetime or None, weekday a set of     *)
(* weekday numbers ({} = absent), after / before the sequence of integers  *)
(* of "HH:MM".split(":") (<<>> = absent).                                  *)
(***************************************************************************)

\* config.get("price") is falsy for None and for 0
PriceTruthy(c) == c.price # None /\ c.price # 0

\* after: hour < after_hour, or same hour and minute < after_minute
AfterRejects(t, parts) ==
    LET after_hour == parts[1]
        after_minute == IF Len(parts) > 1 THEN parts[2] ELSE 0
    IN  \/ HourOf(t) < after_hour
        \/ HourOf(t) = after_hour /\ MinuteOf(t) < after_minute

\* before: hour > before_hour, or same hour and minute >= before_minute
BeforeRejects(t, parts) ==
    LET before_hour == parts[1]
        before_minute == IF Len(parts) > 1 THEN parts[2] ELSE 0
    IN  \/ HourOf(t) > before_hour
        \/ HourOf(t) = before_hour /\ MinuteOf(t) >= before_minute

\* one iteration of the loop of _find_matching_cost_config: TRUE when the
\* loop reaches "return config"
ConfigAccepts(point, c) ==
    /\ PriceTruthy(c) \/ c.entity_id # ""
    /\ ~(c.start_date # None /\ point.date < c.start_date)
    /\ ~(c.end_date # None /\ point.date >= c.end_date)
    /\ ~(c.weekday # {} /\ WeekdayOf(point.date) \notin c.weekday)
    /\ ~(c.after # <<>> /\ AfterRejects(point.date, c.after))
    /\ ~(c.before # <<>> /\ BeforeRejects(point.date, c.before))

\* an exception (TypeError) where a price or an index is expected
Raised == 0 - 2

\* one iteration raises: "point_dt < config_start" / "point_dt >= config_end"
\* compare the point with a date of the rule, which carries no UTC offset
ConfigRaises(point, c) ==
    /\ PriceTruthy(c) \/ c.entity_id # ""
    /\ c.start_date # None \/ c.end_date # None
    /\ Incomparable(point.tz, Naive)

\* index of the first accepting config, 0 for "return None", Raised when an
\* iteration before it raises
find_matching_cost_config(point, configs) ==
    LET ok == {i \in 1..Len(configs) :
                  ConfigRaises(point, configs[i]) \/ ConfigAccepts(point, configs[i])}
        first == CHOOSE i \in ok : \A j \in ok : i <= j
    IN  IF ok = {} THEN 0
        ELSE IF ConfigRaises(point, configs[first]) THEN Raised
        ELSE first

\* A unit string is the sequence of its characters; "EURO" stands for the
\* character U+20AC and "CENT_SIGN" for U+00A2. None and "" are <<>>.
NoUnit == <<>>

\* str.lower(), character by character
LowerChar(ch) ==
    CASE ch = "C" -> "c" [] ch = "E" -> "e" [] ch = "N" -> "n"
      [] ch = "T" -> "t" [] ch = "U" -> "u" [] ch = "R" -> "r"
      [] ch = "M" -> "m" [] ch = "W" -> "w" [] ch = "H" -> "h"
      [] ch = "K" -> "k" [] ch = "S" -> "s" [] ch = "D" -> "d"
      [] OTHER -> ch

Lower(unit) == [i \in 1..Len(unit) |-> LowerChar(unit[i])]

\* Python's "sub in s"
Contains(sub, s) ==
    \E i \in 0..(Len(s) - Len(sub)) : SubSeq(s, i + 1, i + Len(sub)) = sub

\* the patterns _convert_price_unit looks for
Pat_cEuro == <<"c", "EURO">>

Pat_cent == <<"c", "e", "n", "t">>

Pat_centSign == <<"CENT_SIGN">>

Pat_eurMwh == <<"e", "u", "r", "/", "m", "w", "h">>

Pat_euroMwh == <<"EURO", "/", "m", "w", "h">>

Pat_centMwh == <<"c", "e", "n", "t", "/", "m", "w", "h">>

Pat_cEuroMwh == <<"c", "EURO", "/", "m", "w", "h">>

\* the same order checked the other way round: EUR/MWh before cents
convert_price_unit_MWhFirst(price, unit) ==
    LET lower == Lower(unit)
    IN  IF unit = NoUnit THEN price
        ELSE IF Contains(Pat_eurMwh, lower) \/ Contains(Pat_euroMwh, lower)
        THEN price \div 1000
        ELSE IF \/ Contains(Pat_cEuro, lower)
                \/ Contains(Pat_cent, lower)
                \/ Contains(Pat_centSign, lower)
        THEN price \div 100
        ELSE price

\* _convert_price_unit: cents first, then EUR/MWh, then (never reached)
\* cents/MWh, else the price as it is
convert_price_unit(price, unit) ==
    LET lower == Lower(unit)
    IN  IF unit = NoUnit THEN price
        ELSE IF \/ Contains(Pat_cEuro, lower)
                \/ Contains(Pat_cent, lower)
                \/ Contains(Pat_centSign, lower)
        THEN price \div 100
        ELSE IF Contains(Pat_eurMwh, lower) \/ Contains(Pat_euroMwh, lower)
        THEN price \div 1000
        ELSE IF Contains(Pat_centMwh, lower) \/ Contains(Pat_cEuroMwh, lower)
        THEN price \div 100000
        ELSE price

RECURSIVE LastValidIdx(_, _, _, _)
\* the loop of _find_price_from_entity_history: breaks at the first entry
\* later than the point, remembers the last entry seen before (0 = none);
\* "entry_dt > point_dt" raises when one is naive and the other aware
LastValidIdx(history, point, i, last) ==
    IF i > Len(history) THEN last
    ELSE IF Incomparable(history[i].tz, point.tz) THEN Raised
    ELSE IF Ordinal(history[i].timestamp, history[i].tz)
              > Ordinal(point.date, point.tz) THEN last
    ELSE LastValidIdx(history, point, i + 1, i)

\* price in thousandths of EUR/kWh, None when no sample applies, Raised
\* when the comparison raises
find_price_from_entity_history(point, entity_id, entity_history) ==
    LET history == IF entity_id \in DOMAIN entity_history
                   THEN entity_history[entity_id] ELSE <<>>
        k == LastValidIdx(history, point, 1, 0)
    IN  IF history = <<>> \/ k = 0 THEN None
        ELSE IF k = Raised THEN Raised
        ELSE convert_price_unit(history[k].value, history[k].unit)

\* the price compute_costs resolves for one point: None = "continue",
\* Raised = the exception of the lookup leaves compute_costs.
\* entity_history is a function entity_id -> samples; HistNone models a
\* missing (None) or empty mapping, which is falsy
HistNone == << >>

PointPrice(point, configs, entity_history) ==
    LET m == find_matching_cost_config(point, configs)
    IN  IF m = 0 THEN None
        ELSE IF m = Raised THEN Raised
        ELSE IF configs[m].entity_id # "" /\ entity_history # HistNone
             THEN find_price_from_entity_history(
                      point, configs[m].entity_id, entity_history)
        ELSE IF configs[m].price # None THEN configs[m].price
        ELSE None

\* cost = round(price * value) / 1000, in thousandths of EUR
PointCost(price, value) == RoundHalfEven(price * value, 1000 * 1000)

\* compute_costs raises: the lookup of some point raises
compute_costs_raises(energy, configs, entity_history) ==
    \E i \in 1..Len(energy) :
        PointPrice(energy[i], configs, entity_history) = Raised

RECURSIVE compute_costs_from(_, _, _, _)
compute_costs_from(energy, configs, entity_history, i) ==
    IF i > Len(energy) THEN <<>>
    ELSE LET p == PointPrice(energy[i], configs, entity_history)
             rest == compute_costs_from(energy, configs, entity_history, i + 1)
         IN  IF p = None THEN rest
             ELSE <<[date |-> energy[i].date, tz |-> energy[i].tz,
                     value |-> PointCost(p, energy[i].value)]>> \o rest

\* the list compute_costs returns when it does not raise
compute_costs(energy, configs, entity_history) ==
    compute_costs_from(energy, configs, entity_history, 1)

(***************************************************************************)
(* api.py: the tiered fetch of get_energy_data                             *)
(***************************************************************************)

\* api.py: interval = 7
LoadCurveInterval == 7

\* api.py: max_loops = 2
MaxLoops == 2

\* mutant: daily windows of 200 days
DailyInterval_Long == 2 * 100

\* api.py: interval = (365 - 7) / max_loops
DailyInterval == (365 - 7) \div MaxLoops

\* mutant: a start equal to first_day is not clamped
Clamped_Strict(from_date, first_day) == first_day # None /\ from_date < first_day

\* "if first_day and from_date <= first_day"
Clamped(from_date, first_day) == first_day # None /\ from_date <= first_day

\* mutant: every window ends today
TierWindow_ToToday(today, offset, interval, first_day) ==
    LET from_date == today - (offset + interval)
    IN  [from |-> IF Clamped(from_date, first_day) THEN first_day ELSE from_date,
         to |-> today,
         limit |-> Clamped(from_date, first_day)]

\* mutant: a window that is never clamped to first_day
TierWindow_Unclamped(today, offset, interval, first_day) ==
    [from |-> today - (offset + interval),
     to |-> today - offset,
     limit |-> FALSE]

\* the window of a tier: from_str, to_str and whether the limit is reached
TierWindow(today, offset, interval, first_day) ==
    LET from_date == today - (offset + interval)
    IN  [from |-> IF Clamped(from_date, first_day) THEN first_day ELSE from_date,
         to |-> today - offset,
         limit |-> Clamped(from_date, first_day)]

\* outcomes of one remote call: "ok" with readings, the three ConsoApiError
\* classes raised by _request ("auth" ConsoApiAuthError, "conn"
\* ConsoApiConnectionError, "api" ConsoApiError with a message), or an
\* exception that is no ConsoApiError ("other")
ApiErrors == {"auth", "conn", "api"}

IsConsoApiError(o) == o \in ApiErrors

(***************************************************************************)
(* The environment: clock, remote API responses, store                     *)
(***************************************************************************)

\* number of instants the clock goes through
NumInstants == 2

\* the day the clock starts on
BaseDay == 1000

\* number of _async_sync tasks that can exist at once
MaxTasks == 2

\* number of _async_sync tasks created in a behaviour
MaxRuns == 2

\* random.randint(0, 58) of async_setup
RandomMinutes == {10}

\* times of day the clock stops at: 05:30, 06:10, 09:10, day after day
TimesOfDay == <<5 * 60 + 30, 6 * 60 + 10, 9 * 60 + 10>>

Instant(i) ==
    Midnight(BaseDay + (i - 1) \div Len(TimesOfDay))
        + TimesOfDay[((i - 1) % Len(TimesOfDay)) + 1]

\* the coordinator's meter and the statistic ids of statistics_helper.py
Prm == "prm1"

get_statistic_id(prm, production, is_cost) ==
    <<IF production THEN "linky_prod" ELSE "linky", prm,
      IF is_cost THEN "_cost" ELSE "">>

SeriesIds ==
    {get_statistic_id(Prm, p, c) : p \in BOOLEAN, c \in BOOLEAN}

\* a series of the store: listed or not, and its points, one per start
NoSeries == [exists |-> FALSE, pts |-> {}]

Series(pts) == [exists |-> TRUE, pts |-> pts]

\* async_add_external_statistics: metadata added, points upserted by start
\* StatisticData(start=dt, ...): a naive start is taken as local time
StatisticData(p) == [start |-> p.start, state |-> p.state, sum |-> p.sum]

Upsert(series, stats) ==
    LET new == {StatisticData(stats[i]) : i \in 1..Len(stats)}
        starts == {p.start : p \in new}
    IN  Series({p \in series.pts : p.start \notin starts} \cup new)

\* get_last_statistics(hass, 1, statistic_id, ...): the latest point
NoStat == [found |-> FALSE, start |-> None, state |-> 0, sum |-> 0]

LastOf(series) ==
    IF series.pts = {} THEN NoStat
    ELSE LET p == CHOOSE q \in series.pts : \A o \in series.pts : o.start <= q.start
         IN  [found |-> TRUE, start |-> p.start, state |-> p.state, sum |-> p.sum]

\* readings the remote API answers a request with: their dates carry no
\* UTC offset
Reading(d, v, il) ==
    [date |-> d, tz |-> Naive, value |-> v, interval_length |-> il]

\* (the two half hours of the first hour of the last day of the window; the
\* API reports the end of each interval)
LoadCurveBatches(to) ==
    { <<>>,
      <<Reading(Midnight(to - 1) + 30, 1000000, "PT30M"),
        Reading(Midnight(to - 1) + 60, 2000000, "PT30M")>> }

\* readings the remote API answers a daily request with (the first day of
\* the window, or a reading without its date)
DailyBatches(from) ==
    { <<Reading(Midnight(from), 3000000, "")>>,
      <<Reading(None, 3000000, "")>> }

Batches(req) ==
    IF req.kind = "load_curve" THEN LoadCurveBatches(req.to)
    ELSE DailyBatches(req.from)

\* what a remote call ends with: readings, a ConsoApiError, another exception
CallOutcomes == {"ok"} \cup ApiErrors \cup {"other"}

\* what a store call ends with
StoreOutcomes == {"ok", "raise"}

\* cost rules the entry can be configured with
FixedRule(p) ==
    [price |-> p, entity_id |-> "", start_date |-> None, end_date |-> None,
     weekday |-> {}, after |-> <<>>, before |-> <<>>]

EntityRule(e) ==
    [price |-> None, entity_id |-> e, start_date |-> None, end_date |-> None,
     weekday |-> {}, after |-> <<>>, before |-> <<>>]

CostConfigChoices == { <<>>, <<FixedRule(200)>>, <<EntityRule("sensor.price")>> }

\* what the history provider answers for the price entity: samples, whose
\* timestamp is last_updated.isoformat(), a UTC datetime ("+00:00"), or an
\* exception (caught per entity: an empty list)
EntityHistories ==
    { <<>>,
      <<[timestamp |-> 0, tz |-> 0, value |-> 15000, unit |-> <<"c", "e", "n", "t", "/", "k", "W", "h">>]>> }

\* the store the integration starts against: a new meter, or a meter whose
\* energy series (and maybe cost series) ends at a known hour
InitialLastStarts ==
    { Midnight(BaseDay - 3) + 8 * 60, Midnight(BaseDay - 100) + 23 * 60 }

\* the recent meter has a cost series, the old one has none
InitialStores ==
    { [id \in SeriesIds |-> NoSeries] }
    \cup
    { [id \in SeriesIds |->
         IF id = get_statistic_id(Prm, FALSE, FALSE)
         THEN Series({[start |-> t, state |-> 500000, sum |-> 7000000]})
         ELSE IF id = get_statistic_id(Prm, FALSE, TRUE)
                 /\ t > Midnight(BaseDay - 7)
         THEN Series({[start |-> t, state |-> 100, sum |-> 900]})
         ELSE NoSeries] : t \in InitialLastStarts }

(***************************************************************************)
(* State                                                                   *)
(***************************************************************************)
VARIABLES
    clock,          \* index of the current instant
    store,          \* the statistics store: statistic id -> series
    cost_configs,   \* LinkyCoordinator.cost_configs
    status,         \* LinkyCoordinator.status
    last_sync,      \* LinkyCoordinator.last_sync (None or a datetime)
    listeners,      \* LinkyCoordinator._unsub_listeners: hours still tracked
    random_minute,  \* the minute async_setup drew (None before setup)
    created,        \* number of _async_sync tasks created so far
    tasks,          \* the _async_sync coroutines: slot -> frame
    peer,           \* status and last_sync of the coordinator of the
                    \* production side of the meter
    call            \* the last call of a function taken alone: its name,
                    \* its arguments and what it returned

\* the state of the coordinator and of its runs
sync_vars == <<clock, store, cost_configs, status, last_sync, listeners,
               random_minute, created, tasks, peer>>

vars == <<sync_vars, call>>

\* the other coordinator as constructed
NoPeer == [status |-> "pending", last_sync |-> None]

\* no function has been called alone
NoCall == [fn |-> "none", args |-> <<>>, ret |-> <<>>]

now == Instant(clock)

\* LinkyCoordinator.is_production: the consumption side of the meter
IsProduction == FALSE

EnergyId == get_statistic_id(Prm, IsProduction, FALSE)

CostId == get_statistic_id(Prm, IsProduction, TRUE)

NoReq == [kind |-> "none", from |-> None, to |-> None]

\* the frame of an _async_sync coroutine that does not exist
Idle ==
    [pc |-> "idle", mode |-> "none", last_stat |-> NoStat, today |-> None,
     first_day |-> None, offset |-> 0, limit_reached |-> FALSE, loop |-> 0,
     history |-> <<>>, energy_data |-> <<>>, cost_stats |-> <<>>,
     last_cost |-> NoStat, calls |-> <<>>, writes |-> <<>>,
     exc |-> "none", result |-> "none"]

\* _async_sync entered: suspended on is_new_prm's list_statistic_ids
Started == [Idle EXCEPT !.pc = "is_new"]

Slots == 1..MaxTasks

FreeSlots == {r \in Slots : tasks[r].pc = "idle"}

\* the slot a new task takes
NewSlot == CHOOSE r \in FreeSlots : \A q \in FreeSlots : r <= q

Init ==
    /\ clock = 1
    /\ store \in InitialStores
    /\ cost_configs \in CostConfigChoices
    /\ status = "pending"
    /\ last_sync = None
    /\ listeners = {}
    /\ random_minute = None
    /\ created = 0
    /\ tasks = [r \in Slots |-> Idle]
    /\ call = NoCall
    /\ peer = NoPeer

(***************************************************************************)
(* coordinator.py: one _async_sync run, from suspension to suspension      *)
(***************************************************************************)

\* _async_sync has set the status: the coroutine returns
Finish(t, outcome) ==
    [t EXCEPT !.pc = "done", !.result = outcome, !.history = <<>>,
              !.energy_data = <<>>, !.cost_stats = <<>>]

\* the branch returned: self.status = "ok"
Return(t) == Finish(t, "ok")

\* mutant: the handler catches only the exceptions of the fetch
Caught_FetchOnly(e) == e = "fetch"

\* "except Exception": every exception of the branch is caught
Caught(e) == TRUE

\* the branch raised e: self.status = "error" when the handler catches it,
\* and the exception leaves _async_sync when it does not
Raise(t, e) ==
    [Finish(t, IF Caught(e) THEN "error" ELSE "raised") EXCEPT !.exc = e]

\* api._request is entered with a window: the call is in flight
Issue(t, kind, w) ==
    [t EXCEPT !.calls = Append(@, [kind |-> kind, from |-> w.from,
                                    to |-> w.to, outcome |-> "pending"])]

PendingCall(t) == t.calls[Len(t.calls)]

Answered(t, o) == [t EXCEPT !.calls[Len(t.calls)].outcome = o]

\* the same series of the other side of the meter (production for
\* consumption and back)
Mirror(id) == <<IF id[1] = "linky" THEN "linky_prod" ELSE "linky", id[2], id[3]>>

\* mutant: a write that lands on both sides of the meter
Write_BothSides(st, id, stats) ==
    [st EXCEPT ![id] = Upsert(@, stats), ![Mirror(id)] = Upsert(@, stats)]

\* import_statistics(...): the series is written, the write is logged
Write(st, id, stats) == [st EXCEPT ![id] = Upsert(@, stats)]

Logged(t, id, stats) ==
    [t EXCEPT !.writes = Append(@, [id |-> id, stats |-> stats])]

\* _import_costs, from "if last_stat is not None" on, with base_sum known
WriteCosts(t, st, cost_stats, wc) ==
    IF wc = "raise" THEN [task |-> Raise(t, "write"), store |-> st]
    ELSE [task |-> Return(Logged(t, CostId, cost_stats)),
          store |-> Write(st, CostId, cost_stats)]

\* mutant: the cost series is offset by the last energy sum
CostBase_Energy(last_cost) == LastOf(store[EnergyId]).sum

\* base_sum = last_cost["sum"] if last_cost else 0.0
CostBase(last_cost) == IF last_cost.found THEN last_cost.sum ELSE 0

\* _import_costs once find_last_statistic(is_cost=True) has returned
LastCostDone(t, st, so, wc) ==
    LET last_cost == LastOf(st[CostId])
    IN  IF so = "raise" THEN [task |-> Raise(t, "store"), store |-> st]
        ELSE WriteCosts([t EXCEPT !.last_cost = last_cost], st,
                        increment_sums(t.cost_stats, CostBase(last_cost)), wc)

\* _import_costs, from compute_costs on
CostsComputed(t, st, entity_history, wc) ==
    LET costs == compute_costs(t.energy_data, cost_configs, entity_history)
        cost_stats == format_as_statistics(group_by_hour(costs))
    IN  IF compute_costs_raises(t.energy_data, cost_configs, entity_history)
        THEN [task |-> Raise(t, "cost"), store |-> st]
        ELSE IF cost_stats = <<>> THEN [task |-> Return(t), store |-> st]
        ELSE IF t.mode = "incr"
        THEN [task |-> [t EXCEPT !.pc = "last_cost", !.cost_stats = cost_stats],
              store |-> st]
        ELSE WriteCosts(t, st, cost_stats, wc)

\* _fetch_entity_history: the entity ids of the rules
EntityIds == {cost_configs[i].entity_id : i \in 1..Len(cost_configs)} \ {""}

\* _import_costs up to its first suspension
ImportCosts(t, st, wc) ==
    IF EntityIds # {}
    THEN [task |-> [t EXCEPT !.pc = "entity_hist"], store |-> st]
    ELSE CostsComputed(t, st, HistNone, wc)

\* mutant: the incremental series restarts at 0
EnergyBase_Zero(t) == 0

\* the offset of the energy series written: last_stat["sum"] in an
\* incremental run, none (base 0) in an initializing run
EnergyBase(t) == IF t.mode = "incr" THEN t.last_stat.sum ELSE 0

\* mutant: a fetch without readings still registers the energy series
FetchDone_WritesEmpty(t, st, we, wc) ==
    LET raw == Flatten(t.history)
        energy_data == format_raw_data(raw)
        energy_stats == format_as_statistics(group_by_hour(energy_data))
        out == increment_sums(energy_stats, EnergyBase(t))
        t1 == [Logged(t, EnergyId, out) EXCEPT !.energy_data = energy_data]
    IN  IF FormatRawRaises(raw) THEN [task |-> Raise(t, "format"), store |-> st]
        ELSE IF energy_data = <<>>
        THEN [task |-> Return(t), store |-> Write(st, EnergyId, <<>>)]
        ELSE IF we = "raise" THEN [task |-> Raise(t, "write"), store |-> st]
        ELSE IF cost_configs = <<>>
        THEN [task |-> Return(t1), store |-> Write(st, EnergyId, out)]
        ELSE ImportCosts(t1, Write(st, EnergyId, out), wc)

\* _async_init / _async_incremental_sync once get_energy_data has returned
FetchDone(t, st, we, wc) ==
    LET raw == Flatten(t.history)
        energy_data == format_raw_data(raw)
        energy_stats == format_as_statistics(group_by_hour(energy_data))
        out == increment_sums(energy_stats, EnergyBase(t))
        t1 == [Logged(t, EnergyId, out) EXCEPT !.energy_data = energy_data]
    IN  IF FormatRawRaises(raw) THEN [task |-> Raise(t, "format"), store |-> st]
        ELSE IF energy_data = <<>> THEN [task |-> Return(t), store |-> st]
        ELSE IF we = "raise" THEN [task |-> Raise(t, "write"), store |-> st]
        ELSE IF cost_configs = <<>>
        THEN [task |-> Return(t1), store |-> Write(st, EnergyId, out)]
        ELSE ImportCosts(t1, Write(st, EnergyId, out), wc)

\* get_energy_data: the head of the daily loop
NextDaily(t, st, we, wc) ==
    IF t.loop < MaxLoops /\ ~t.limit_reached
    THEN LET w == TierWindow(t.today, t.offset, DailyInterval, t.first_day)
         IN  [task |-> [Issue(t, "daily", w) EXCEPT
                           !.pc = "daily", !.limit_reached = w.limit],
              store |-> st]
    ELSE FetchDone(t, st, we, wc)

\* get_energy_data: the load-curve call has ended with o (readings d)
Tier1Done(t, st, o, d, we, wc) ==
    IF o = "ok"
    THEN NextDaily([Answered(t, o) EXCEPT !.history = <<d>>,
                       !.offset = @ + LoadCurveInterval], st, we, wc)
    ELSE IF IsConsoApiError(o) THEN NextDaily(Answered(t, o), st, we, wc)
    ELSE [task |-> Raise(Answered(t, o), "fetch"), store |-> st]

\* mutant: a ConsoApiError of a daily call leaves get_energy_data
DailyDone_Raises(t, st, o, d, we, wc) ==
    IF o = "ok"
    THEN NextDaily([Answered(t, o) EXCEPT !.history = <<d>> \o @,
                       !.offset = @ + DailyInterval, !.loop = @ + 1],
                   st, we, wc)
    ELSE [task |-> Raise(Answered(t, o), "fetch"), store |-> st]

\* mutant: the readings of a daily tier are put after the tiers fetched
\* before it
DailyDone_Appends(t, st, o, d, we, wc) ==
    IF o = "ok"
    THEN NextDaily([Answered(t, o) EXCEPT !.history = @ \o <<d>>,
                       !.offset = @ + DailyInterval, !.loop = @ + 1],
                   st, we, wc)
    ELSE IF IsConsoApiError(o) THEN FetchDone(Answered(t, o), st, we, wc)
    ELSE [task |-> Raise(Answered(t, o), "fetch"), store |-> st]

\* mutant: after a ConsoApiError of a daily call the loop goes on to its
\* next iteration
DailyDone_Continues(t, st, o, d, we, wc) ==
    IF o = "ok"
    THEN NextDaily([Answered(t, o) EXCEPT !.history = <<d>> \o @,
                       !.offset = @ + DailyInterval, !.loop = @ + 1],
                   st, we, wc)
    ELSE IF IsConsoApiError(o)
    THEN NextDaily([Answered(t, o) EXCEPT !.loop = @ + 1], st, we, wc)
    ELSE [task |-> Raise(Answered(t, o), "fetch"), store |-> st]

\* get_energy_data: a daily call has ended with o (readings d)
DailyDone(t, st, o, d, we, wc) ==
    IF o = "ok"
    THEN NextDaily([Answered(t, o) EXCEPT !.history = <<d>> \o @,
                       !.offset = @ + DailyInterval, !.loop = @ + 1],
                   st, we, wc)
    ELSE IF IsConsoApiError(o) THEN FetchDone(Answered(t, o), st, we, wc)
    ELSE [task |-> Raise(Answered(t, o), "fetch"), store |-> st]

\* get_energy_data entered: today read, the load-curve call issued
StartFetch(t, first_day) ==
    LET today == DateOf(now)
        w == TierWindow(today, 0, LoadCurveInterval, first_day)
    IN  [Issue(t, "load_curve", w) EXCEPT
            !.pc = "tier1", !.today = today, !.first_day = first_day,
            !.offset = 0, !.limit_reached = w.limit, !.loop = 0,
            !.history = <<>>]

\* mutant: "or" for "and"
is_syncing_needed_Or(last_dt, t) == last_dt < t - 2 * DayMin \/ HourOf(t) >= 6

\* is_syncing_needed = last_dt < now - timedelta(days=2) and now.hour >= 6
is_syncing_needed(last_dt, t) == last_dt < t - 2 * DayMin /\ HourOf(t) >= 6

\* mutant: the day of the last point is fetched again
FirstDay_SameDay(last_dt) == DateOf(last_dt)

\* first_day = (last_dt + timedelta(days=1)).date()
FirstDay(last_dt) == DateOf(last_dt + DayMin)

\* _async_incremental_sync once find_last_statistic has returned
FindLastDone(t, st, so) ==
    LET last_stat == LastOf(st[EnergyId])
        t1 == [t EXCEPT !.last_stat = last_stat]
    IN  IF so = "raise" THEN Raise(t, "store")
        ELSE IF ~last_stat.found THEN Return(t1)
        ELSE IF ~is_syncing_needed(last_stat.start, now) THEN Return(t1)
        ELSE StartFetch(t1, FirstDay(last_stat.start))

\* mutant: the mode is remembered (new until a first run has ended ok)
is_new_prm_Remembered(st) == last_sync = None

\* is_new_prm: no listed statistic id is the meter's energy id
is_new_prm(st) == ~st[EnergyId].exists

\* _async_sync once is_new_prm has returned
IsNewDone(t, st, so) ==
    IF so = "raise" THEN Raise(t, "store")
    ELSE IF is_new_prm(st) THEN StartFetch([t EXCEPT !.mode = "init"], None)
    ELSE [t EXCEPT !.mode = "incr", !.pc = "find_last"]

\* the status and last_sync _async_sync leaves when the task has ended
StatusAfter(t) == IF t.pc = "done" THEN t.result ELSE status

\* mutant: last_sync is set by every run that ends
LastSyncAfter_Always(t) == IF t.pc = "done" THEN now ELSE last_sync

LastSyncAfter(t) ==
    IF t.pc = "done" /\ t.result = "ok" THEN now ELSE last_sync

Resume(r, res) ==
    /\ tasks' = [tasks EXCEPT ![r] = res.task]
    /\ store' = res.store
    /\ status' = StatusAfter(res.task)
    /\ last_sync' = LastSyncAfter(res.task)
    /\ UNCHANGED <<clock, cost_configs, listeners, random_minute, created>>

(***************************************************************************)
(* Actions                                                                 *)
(***************************************************************************)

\* async_setup: both hours tracked, then the initial _async_sync awaited
AsyncSetup ==
    /\ random_minute = None
    /\ \E m \in RandomMinutes : random_minute' = m
    /\ listeners' = {6, 9}
    /\ tasks' = [tasks EXCEPT ![NewSlot] = Started]
    /\ created' = created + 1
    /\ UNCHANGED <<clock, store, cost_configs, status, last_sync>>

\* a teardown that also cancels the runs in flight
AsyncTeardown_Cancels ==
    /\ listeners # {}
    /\ listeners' = {}
    /\ tasks' = [r \in Slots |-> Idle]
    /\ UNCHANGED <<clock, store, cost_configs, status, last_sync,
                   random_minute, created>>

\* async_teardown: every listener unsubscribed
AsyncTeardown ==
    /\ listeners # {}
    /\ listeners' = {}
    /\ UNCHANGED <<clock, store, cost_configs, status, last_sync,
                   random_minute, created, tasks>>

\* async_track_time_change fires at instant t
Fires(t) == HourOf(t) \in listeners /\ MinuteOf(t) = random_minute

\* time passes to an instant no listener fires at
Tick ==
    /\ clock < NumInstants
    /\ ~Fires(Instant(clock + 1))
    /\ clock' = clock + 1
    /\ UNCHANGED <<store, cost_configs, status, last_sync, listeners,
                   random_minute, created, tasks>>

\* _async_scheduled_sync: the tracked time comes, a task is created
ScheduledSync ==
    /\ clock < NumInstants
    /\ Fires(Instant(clock + 1))
    /\ FreeSlots # {}
    /\ created < MaxRuns
    /\ clock' = clock + 1
    /\ tasks' = [tasks EXCEPT ![NewSlot] = Started]
    /\ created' = created + 1
    /\ UNCHANGED <<store, cost_configs, status, last_sync, listeners,
                   random_minute>>

IsNewReturn(r) ==
    /\ tasks[r].pc = "is_new"
    /\ \E so \in StoreOutcomes :
         Resume(r, [task |-> IsNewDone(tasks[r], store, so), store |-> store])

FindLastReturn(r) ==
    /\ tasks[r].pc = "find_last"
    /\ \E so \in StoreOutcomes :
         Resume(r, [task |-> FindLastDone(tasks[r], store, so), store |-> store])

Tier1Return(r) ==
    /\ tasks[r].pc = "tier1"
    /\ \E o \in CallOutcomes, we \in StoreOutcomes, wc \in StoreOutcomes :
         \E d \in IF o = "ok" THEN Batches(PendingCall(tasks[r])) ELSE {<<>>} :
            Resume(r, Tier1Done(tasks[r], store, o, d, we, wc))

DailyReturn(r) ==
    /\ tasks[r].pc = "daily"
    /\ \E o \in CallOutcomes, we \in StoreOutcomes, wc \in StoreOutcomes :
         \E d \in IF o = "ok" THEN Batches(PendingCall(tasks[r])) ELSE {<<>>} :
            Resume(r, DailyDone(tasks[r], store, o, d, we, wc))

\* get_significant_states has answered (an exception gives an empty list)
EntityHistReturn(r) ==
    /\ tasks[r].pc = "entity_hist"
    /\ \E h \in EntityHistories, wc \in StoreOutcomes :
         Resume(r, CostsComputed(tasks[r], store,
                                 [e \in EntityIds |-> h], wc))

\* find_last_statistic(is_cost=True) has returned
LastCostReturn(r) ==
    /\ tasks[r].pc = "last_cost"
    /\ \E so \in StoreOutcomes, wc \in StoreOutcomes :
         Resume(r, LastCostDone(tasks[r], store, so, wc))

\* the coroutine has returned: its frame is dropped
Reap(r) ==
    /\ tasks[r].pc = "done"
    /\ tasks' = [tasks EXCEPT ![r] = Idle]
    /\ UNCHANGED <<clock, store, cost_configs, status, last_sync, listeners,
                   random_minute, created>>

\* purge_statistics of the reset service: both series of the meter cleared
ResetStatistics ==
    /\ store[EnergyId].exists \/ store[CostId].exists
    /\ store' = [store EXCEPT ![EnergyId] = NoSeries, ![CostId] = NoSeries]
    /\ UNCHANGED <<clock, cost_configs, status, last_sync, listeners,
                   random_minute, created, tasks>>

\* a coroutine that has returned is dropped before the event loop runs
\* anything else
NoneReturned == \A r \in Slots : tasks[r].pc # "done"

Next ==
    \/ NoneReturned /\ AsyncSetup /\ UNCHANGED <<call, peer>>
    \/ NoneReturned /\ AsyncTeardown /\ UNCHANGED <<call, peer>>
    \/ NoneReturned /\ Tick /\ UNCHANGED <<call, peer>>
    \/ NoneReturned /\ ScheduledSync /\ UNCHANGED <<call, peer>>
    \/ NoneReturned /\ (\E r \in Slots : IsNewReturn(r)) /\ UNCHANGED <<call, peer>>
    \/ NoneReturned /\ (\E r \in Slots : FindLastReturn(r)) /\ UNCHANGED <<call, peer>>
    \/ NoneReturned /\ (\E r \in Slots : Tier1Return(r)) /\ UNCHANGED <<call, peer>>
    \/ NoneReturned /\ (\E r \in Slots : DailyReturn(r)) /\ UNCHANGED <<call, peer>>
    \/ NoneReturned /\ (\E r \in Slots : EntityHistReturn(r)) /\ UNCHANGED <<call, peer>>
    \/ NoneReturned /\ (\E r \in Slots : LastCostReturn(r)) /\ UNCHANGED <<call, peer>>
    \/ NoneReturned /\ ResetStatistics /\ UNCHANGED <<call, peer>>
    \/ (\E r \in Slots : Reap(r)) /\ UNCHANGED <<call, peer>>

Spec == Init /\ [][Next]_vars

(***************************************************************************)
(* A coordinator without cost rules whose awaited calls all return: the    *)
(* store and the remote API answer (with a result or an exception) every   *)
(* call a run is suspended on, and the event loop drops a returned task    *)
(***************************************************************************)

UnpricedInit ==
    /\ clock = 1
    /\ store \in InitialStores
    /\ cost_configs = <<>>
    /\ status = "pending"
    /\ last_sync = None
    /\ listeners = {}
    /\ random_minute = None
    /\ created = 0
    /\ tasks = [r \in Slots |-> Idle]
    /\ call = NoCall
    /\ peer = NoPeer

\* the awaited call of run r returns, or the returned run is dropped
RunStep(r) ==
    \/ NoneReturned /\ IsNewReturn(r) /\ UNCHANGED <<call, peer>>
    \/ NoneReturned /\ FindLastReturn(r) /\ UNCHANGED <<call, peer>>
    \/ NoneReturned /\ Tier1Return(r) /\ UNCHANGED <<call, peer>>
    \/ NoneReturned /\ DailyReturn(r) /\ UNCHANGED <<call, peer>>
    \/ Reap(r) /\ UNCHANGED <<call, peer>>

UnpricedNext ==
    \/ NoneReturned /\ AsyncSetup /\ UNCHANGED <<call, peer>>
    \/ NoneReturned /\ AsyncTeardown /\ UNCHANGED <<call, peer>>
    \/ NoneReturned /\ Tick /\ UNCHANGED <<call, peer>>
    \/ NoneReturned /\ ScheduledSync /\ UNCHANGED <<call, peer>>
    \/ \E r \in Slots : RunStep(r)

SpecLive ==
    /\ UnpricedInit
    /\ [][UnpricedNext]_vars
    /\ \A r \in Slots : WF_vars(RunStep(r))

(***************************************************************************)
(* Two coordinators of one meter, consumption and production, each in its  *)
(* setup-time run against the shared store.  The production coordinator    *)
(* runs the same code with is_production = True: its steps are the steps   *)
(* of the code on the store seen from the other side (its frame, in slot   *)
(* 2, names the series from its own side).                                 *)
(***************************************************************************)

\* the store with the two sides of the meter exchanged
Swap(st) == [id \in SeriesIds |-> st[Mirror(id)]]

ConsumptionIds == {get_statistic_id(Prm, FALSE, c) : c \in BOOLEAN}

ProductionIds == {get_statistic_id(Prm, TRUE, c) : c \in BOOLEAN}

\* each side new or with a history
PairStores ==
    { [id \in SeriesIds |->
          IF id \in ConsumptionIds THEN a[id] ELSE b[Mirror(id)]] :
        a \in InitialStores, b \in InitialStores }

\* both coordinators set up at 06:10, their first runs suspended on
\* is_new_prm
PairInit ==
    /\ clock = 2
    /\ store \in PairStores
    /\ cost_configs = <<FixedRule(200)>>
    /\ status = "pending"
    /\ last_sync = None
    /\ listeners = {6, 9}
    /\ random_minute \in RandomMinutes
    /\ created = 1
    /\ tasks = [r \in Slots |-> Started]
    /\ call = NoCall
    /\ peer = NoPeer

\* the run of the consumption coordinator resumes
OwnReturn ==
    \/ IsNewReturn(1)
    \/ FindLastReturn(1)
    \/ Tier1Return(1)
    \/ DailyReturn(1)
    \/ LastCostReturn(1)

\* the run of the production coordinator takes a step: its frame, its side
\* of the store, its status and last_sync
PeerResume(res) ==
    /\ tasks' = [tasks EXCEPT ![2] = res.task]
    /\ store' = Swap(res.store)
    /\ peer' = [status |-> IF res.task.pc = "done" THEN res.task.result
                           ELSE peer.status,
                last_sync |-> IF res.task.pc = "done" /\ res.task.result = "ok"
                              THEN now ELSE peer.last_sync]
    /\ UNCHANGED <<clock, cost_configs, status, last_sync, listeners,
                   random_minute, created, call>>

PeerIsNewReturn ==
    /\ tasks[2].pc = "is_new"
    /\ \E so \in StoreOutcomes :
         PeerResume([task |-> IsNewDone(tasks[2], Swap(store), so),
                     store |-> Swap(store)])

PeerFindLastReturn ==
    /\ tasks[2].pc = "find_last"
    /\ \E so \in StoreOutcomes :
         PeerResume([task |-> FindLastDone(tasks[2], Swap(store), so),
                     store |-> Swap(store)])

PeerTier1Return ==
    /\ tasks[2].pc = "tier1"
    /\ \E o \in CallOutcomes, we \in StoreOutcomes, wc \in StoreOutcomes :
         \E d \in IF o = "ok" THEN Batches(PendingCall(tasks[2])) ELSE {<<>>} :
            PeerResume(Tier1Done(tasks[2], Swap(store), o, d, we, wc))

PeerDailyReturn ==
    /\ tasks[2].pc = "daily"
    /\ \E o \in CallOutcomes, we \in StoreOutcomes, wc \in StoreOutcomes :
         \E d \in IF o = "ok" THEN Batches(PendingCall(tasks[2])) ELSE {<<>>} :
            PeerResume(DailyDone(tasks[2], Swap(store), o, d, we, wc))

PeerLastCostReturn ==
    /\ tasks[2].pc = "last_cost"
    /\ \E so \in StoreOutcomes, wc \in StoreOutcomes :
         PeerResume(LastCostDone(tasks[2], Swap(store), so, wc))

PairNext ==
    \/ NoneReturned /\ OwnReturn /\ UNCHANGED <<call, peer>>
    \/ NoneReturned /\ PeerIsNewReturn
    \/ NoneReturned /\ PeerFindLastReturn
    \/ NoneReturned /\ PeerTier1Return
    \/ NoneReturned /\ PeerDailyReturn
    \/ NoneReturned /\ PeerLastCostReturn
    \/ (\E r \in Slots : Reap(r)) /\ UNCHANGED <<call, peer>>

SpecPair == PairInit /\ [][PairNext]_vars

(***************************************************************************)
(* The coordinator and the reset service, against a store that also holds  *)
(* the production side of the meter                                        *)
(***************************************************************************)

\* the production side has a history; the consumption side is new or has one
ResetStores ==
    {st \in PairStores : st[get_statistic_id(Prm, TRUE, FALSE)].exists}

ResetInit ==
    /\ clock = 1
    /\ store \in ResetStores
    /\ cost_configs = <<FixedRule(200)>>
    /\ status = "pending"
    /\ last_sync = None
    /\ listeners = {}
    /\ random_minute = None
    /\ created = 0
    /\ tasks = [r \in Slots |-> Idle]
    /\ call = NoCall
    /\ peer = NoPeer

\* handle_reset_statistics(prm, production) is called and returns
ResetService ==
    /\ ResetStatistics
    /\ call' = [fn |-> "reset_statistics", args |-> <<Prm, IsProduction>>,
                ret |-> <<>>]
    /\ UNCHANGED peer

ResetNext ==
    \/ NoneReturned /\ AsyncSetup /\ UNCHANGED <<call, peer>>
    \/ NoneReturned /\ Tick /\ UNCHANGED <<call, peer>>
    \/ NoneReturned /\ ScheduledSync /\ UNCHANGED <<call, peer>>
    \/ NoneReturned /\ (\E r \in Slots : IsNewReturn(r)) /\ UNCHANGED <<call, peer>>
    \/ NoneReturned /\ (\E r \in Slots : FindLastReturn(r)) /\ UNCHANGED <<call, peer>>
    \/ NoneReturned /\ (\E r \in Slots : Tier1Return(r)) /\ UNCHANGED <<call, peer>>
    \/ NoneReturned /\ (\E r \in Slots : DailyReturn(r)) /\ UNCHANGED <<call, peer>>
    \/ NoneReturned /\ (\E r \in Slots : LastCostReturn(r)) /\ UNCHANGED <<call, peer>>
    \/ NoneReturned /\ ResetService
    \/ (\E r \in Slots : Reap(r)) /\ UNCHANGED <<call, peer>>

SpecReset == ResetInit /\ [][ResetNext]_vars

(***************************************************************************)
(* A new meter with one fixed-price rule: the setup-time run initializes,  *)
(* the scheduled run that follows is incremental                           *)
(***************************************************************************)

PricedInit ==
    /\ clock = 1
    /\ store = [id \in SeriesIds |-> NoSeries]
    /\ cost_configs = <<FixedRule(200)>>
    /\ status = "pending"
    /\ last_sync = None
    /\ listeners = {}
    /\ random_minute = None
    /\ created = 0
    /\ tasks = [r \in Slots |-> Idle]
    /\ call = NoCall
    /\ peer = NoPeer

PricedNext ==
    \/ NoneReturned /\ AsyncSetup /\ UNCHANGED <<call, peer>>
    \/ NoneReturned /\ Tick /\ UNCHANGED <<call, peer>>
    \/ NoneReturned /\ ScheduledSync /\ UNCHANGED <<call, peer>>
    \/ NoneReturned /\ (\E r \in Slots : IsNewReturn(r)) /\ UNCHANGED <<call, peer>>
    \/ NoneReturned /\ (\E r \in Slots : FindLastReturn(r)) /\ UNCHANGED <<call, peer>>
    \/ NoneReturned /\ (\E r \in Slots : Tier1Return(r)) /\ UNCHANGED <<call, peer>>
    \/ NoneReturned /\ (\E r \in Slots : DailyReturn(r)) /\ UNCHANGED <<call, peer>>
    \/ NoneReturned /\ (\E r \in Slots : LastCostReturn(r)) /\ UNCHANGED <<call, peer>>
    \/ (\E r \in Slots : Reap(r)) /\ UNCHANGED <<call, peer>>

SpecPriced == PricedInit /\ [][PricedNext]_vars

(***************************************************************************)
(* The tiered fetch taken alone: the setup-time run of a coordinator       *)
(* without cost rules, against stores whose last point puts first_day at   *)
(* and around every tier boundary                                          *)
(***************************************************************************)

\* first_day = today - age: inside the load-curve window, at and past its
\* start, at and past the start of each daily window, and 400 days back
FetchSinceAges == {4, 7, 8, 186, 187, 365, 366, 400}

FetchStores ==
    { [id \in SeriesIds |-> NoSeries] }
    \cup
    { [id \in SeriesIds |->
         IF id = get_statistic_id(Prm, FALSE, FALSE)
         THEN Series({[start |-> Midnight(BaseDay - age - 1) + 23 * 60,
                       state |-> 500000, sum |-> 7000000]})
         ELSE NoSeries] : age \in FetchSinceAges }

FetchInit ==
    /\ clock = 1
    /\ store \in FetchStores
    /\ cost_configs = <<>>
    /\ status = "pending"
    /\ last_sync = None
    /\ listeners = {}
    /\ random_minute = None
    /\ created = 0
    /\ tasks = [r \in Slots |-> Idle]
    /\ call = NoCall
    /\ peer = NoPeer

FetchNext ==
    \/ NoneReturned /\ Tick /\ UNCHANGED <<call, peer>>
    \/ NoneReturned /\ AsyncSetup /\ UNCHANGED <<call, peer>>
    \/ NoneReturned /\ (\E r \in Slots : IsNewReturn(r)) /\ UNCHANGED <<call, peer>>
    \/ NoneReturned /\ (\E r \in Slots : FindLastReturn(r)) /\ UNCHANGED <<call, peer>>
    \/ NoneReturned /\ (\E r \in Slots : Tier1Return(r)) /\ UNCHANGED <<call, peer>>
    \/ NoneReturned /\ (\E r \in Slots : DailyReturn(r)) /\ UNCHANGED <<call, peer>>
    \/ (\E r \in Slots : Reap(r)) /\ UNCHANGED <<call, peer>>

SpecFetch == FetchInit /\ [][FetchNext]_vars

(***************************************************************************)
(* The functions taken alone: one call on a coordinator at rest            *)
(***************************************************************************)

\* the coordinator as constructed, nothing running, no function called
QuietInit ==
    /\ clock = 1
    /\ store = [id \in SeriesIds |-> NoSeries]
    /\ cost_configs = <<>>
    /\ status = "pending"
    /\ last_sync = None
    /\ listeners = {}
    /\ random_minute = None
    /\ created = 0
    /\ tasks = [r \in Slots |-> Idle]
    /\ call = NoCall
    /\ peer = NoPeer

\* function fn is called with args and returns ret
Called(fn, args, ret) ==
    /\ call = NoCall
    /\ call' = [fn |-> fn, args |-> args, ret |-> ret]
    /\ UNCHANGED sync_vars

(***************************************************************************)
(* cost.py taken alone                                                     *)
(***************************************************************************)

\* a Monday and the Tuesday after it
Monday == 7 * 143

Tuesday == Monday + 1

\* energy points: Monday 05:30, 06:00, 22:00 and 22:30, Tuesday 06:00,
\* without UTC offset (as normalized from the API) or at +01:00
CostTimes ==
    { Midnight(Monday) + 5 * 60 + 30, Midnight(Monday) + 6 * 60,
      Midnight(Monday) + 22 * 60, Midnight(Monday) + 22 * 60 + 30,
      Midnight(Tuesday) + 6 * 60 }

CostPoints ==
    { [date |-> t, tz |-> z, value |-> 1500000] :
        t \in CostTimes, z \in {Naive, 60} }

\* cost rules: fixed prices 0.2, 0 and, filtered by time of day, weekday,
\* start date and end date, 0.3, 0.1, 0.15 and 0.25 EUR/kWh; an entity rule
CostRules ==
    { FixedRule(200), FixedRule(0),
      [FixedRule(300) EXCEPT !.after = <<6, 0>>, !.before = <<22, 30>>],
      [FixedRule(100) EXCEPT !.weekday = {0}],
      [FixedRule(150) EXCEPT !.start_date = Midnight(Tuesday)],
      [FixedRule(250) EXCEPT !.end_date = Midnight(Tuesday)],
      EntityRule("sensor.price") }

\* rules with one filter each at the boundaries of the points: "after" and
\* "before" given as hour only ("06") or hour:minute ("05:45"), weekday lists,
\* a start and an end date at Tuesday 06:00, and a window no time falls in
FilterRules ==
    { [FixedRule(300) EXCEPT !.after = <<6>>],
      [FixedRule(300) EXCEPT !.after = <<5, 30>>],
      [FixedRule(300) EXCEPT !.after = <<5, 45>>],
      [FixedRule(300) EXCEPT !.before = <<22>>],
      [FixedRule(300) EXCEPT !.before = <<22, 30>>],
      [FixedRule(300) EXCEPT !.before = <<6>>],
      [FixedRule(300) EXCEPT !.after = <<22>>, !.before = <<6>>],
      [FixedRule(300) EXCEPT !.weekday = {1}],
      [FixedRule(300) EXCEPT !.weekday = {0, 1}],
      [FixedRule(300) EXCEPT !.start_date = Midnight(Tuesday) + 6 * 60],
      [FixedRule(300) EXCEPT !.end_date = Midnight(Tuesday) + 6 * 60] }

CostRuleLists ==
    {<<>>} \cup {<<a>> : a \in CostRules \cup FilterRules}
           \cup {<<a, b>> : a \in CostRules, b \in CostRules}

\* samples of the price entity, ascending: Monday 05:00 and 06:00 UTC
\* (last_updated.isoformat() carries "+00:00"), the same without offset,
\* one sample late on Tuesday, none
Sample(t, z, v) == [timestamp |-> t, tz |-> z, value |-> v, unit |-> NoUnit]

CostSamples ==
    { <<>>,
      <<Sample(Midnight(Monday) + 5 * 60, 0, 180),
        Sample(Midnight(Monday) + 6 * 60, 0, 220)>>,
      <<Sample(Midnight(Monday) + 5 * 60, Naive, 180),
        Sample(Midnight(Monday) + 6 * 60, Naive, 220)>>,
      <<Sample(Midnight(Tuesday) + 23 * 60, 0, 0)>>,
      <<Sample(Midnight(Tuesday) + 23 * 60, Naive, 0)>> }

\* entity_history: None, or the samples of the entity
CostHistories ==
    {HistNone} \cup {[e \in {"sensor.price"} |-> h] : h \in CostSamples}

\* energy lists: one point, or Monday 06:00 then Monday 22:30
CostEnergies ==
    {<<p>> : p \in CostPoints}
    \cup {<<[date |-> Midnight(Monday) + 6 * 60, tz |-> Naive, value |-> 1500000],
            [date |-> Midnight(Monday) + 22 * 60 + 30, tz |-> Naive,
             value |-> 2500000]>>}

CallFindMatching ==
    \E point \in CostPoints, configs \in CostRuleLists :
        Called("find_matching_cost_config", <<point, configs>>,
               find_matching_cost_config(point, configs))

CallFindPrice ==
    \E point \in CostPoints, h \in CostHistories \ {HistNone} :
        Called("find_price_from_entity_history", <<point, h>>,
               find_price_from_entity_history(point, "sensor.price", h))

CallComputeCosts ==
    \E energy \in CostEnergies, configs \in CostRuleLists, h \in CostHistories :
        Called("compute_costs", <<energy, configs, h>>,
               IF compute_costs_raises(energy, configs, h)
               THEN [raised |-> TRUE, costs |-> <<>>]
               ELSE [raised |-> FALSE, costs |-> compute_costs(energy, configs, h)])

\* unit_of_measurement of a price entity: none, cents per kWh and per MWh
\* in several spellings, EUR per MWh, EUR per kWh, another currency per
\* MWh, a spelling with blanks
PriceUnits ==
    { NoUnit,
      <<"c", "EURO", "/", "k", "W", "h">>,
      <<"C", "EURO", "/", "k", "W", "h">>,
      <<"c", "e", "n", "t", "/", "k", "W", "h">>,
      <<"C", "e", "n", "t", "s", "/", "k", "W", "h">>,
      <<"C", "E", "N", "T", "/", "K", "W", "H">>,
      <<"CENT_SIGN", "/", "k", "W", "h">>,
      <<"c", "EURO", "/", "M", "W", "h">>,
      <<"c", "e", "n", "t", "/", "M", "W", "h">>,
      <<"E", "U", "R", " ", "c", "e", "n", "t", "/", "M", "W", "h">>,
      <<"CENT_SIGN", "/", "M", "W", "h">>,
      <<"E", "U", "R", "/", "M", "W", "h">>,
      <<"e", "u", "r", "/", "m", "w", "h">>,
      <<"EURO", "/", "M", "W", "h">>,
      <<"EURO", "/", "M", "W", "H">>,
      <<"E", "U", "R", "/", "k", "W", "h">>,
      <<"EURO", "/", "k", "W", "h">>,
      <<"U", "S", "D", "/", "M", "W", "h">>,
      <<"E", "U", "R", " ", "/", " ", "M", "W", "h">>,
      <<"k", "W", "h">> }

\* prices as the entity reports them: 15, 150, 200 and 0.18
UnitPrices == {15000, 150000, 200000, 180}

CallConvertPriceUnit ==
    \E price \in UnitPrices, unit \in PriceUnits :
        Called("convert_price_unit", <<price, unit>>,
               convert_price_unit(price, unit))

CostNext ==
    CallFindMatching \/ CallFindPrice \/ CallComputeCosts \/ CallConvertPriceUnit

SpecCost == QuietInit /\ [][CostNext]_vars

(***************************************************************************)
(* The options flow (config_flow.py): the cost rules an entry stores       *)
(***************************************************************************)

\* an element of the submitted JSON list: an object read as a rule, or
\* anything else (a number, a string, a nested list)
Item(r) == [dict |-> TRUE, rule |-> r]

NotADict == [dict |-> FALSE, rule |-> FixedRule(None)]

\* the text submitted in the form: not JSON, JSON that is not a list, or
\* a JSON list of items
NotJson == [kind |-> "text", items |-> <<>>]

NotAList == [kind |-> "value", items |-> <<>>]

JsonList(items) == [kind |-> "list", items |-> items]

\* has_price / has_entity of the validation loop
has_price(cost) == cost.price # None

has_entity(cost) == cost.entity_id # ""

\* any(cost.get(k) for k in ("after", "before", "weekday"))
has_time_filter(cost) ==
    cost.after # <<>> \/ cost.before # <<>> \/ cost.weekday # {}

\* the validation loop without its check of time filters on entity rules
cost_error_NoFilterCheck(item) ==
    IF ~item.dict THEN "invalid_costs_format"
    ELSE IF has_price(item.rule) /\ has_entity(item.rule)
         THEN "price_and_entity"
    ELSE IF ~has_price(item.rule) /\ ~has_entity(item.rule)
         THEN "no_price_or_entity"
    ELSE ""

\* the error the validation loop sets for one item, "" when it sets none
cost_error(item) ==
    IF ~item.dict THEN "invalid_costs_format"
    ELSE IF has_price(item.rule) /\ has_entity(item.rule)
         THEN "price_and_entity"
    ELSE IF ~has_price(item.rule) /\ ~has_entity(item.rule)
         THEN "no_price_or_entity"
    ELSE IF has_entity(item.rule) /\ has_time_filter(item.rule)
         THEN "entity_with_time_filter"
    ELSE ""

RECURSIVE costs_error(_, _)
\* the loop over the items from position i: it breaks at the first error
costs_error(items, i) ==
    IF i > Len(items) THEN ""
    ELSE IF cost_error(items[i]) # "" THEN cost_error(items[i])
    ELSE costs_error(items, i + 1)

\* the list async_create_entry stores
StoredRules(items) == [i \in 1..Len(items) |-> items[i].rule]

\* async_step_init(user_input): the flow result and the options after it
async_step_init(user_input, current) ==
    LET error == IF user_input.kind = "text" THEN "invalid_json"
                 ELSE IF user_input.kind # "list" THEN "invalid_costs_format"
                 ELSE costs_error(user_input.items, 1)
    IN  IF error = ""
        THEN [type |-> "create_entry", error |-> "",
              options |-> StoredRules(user_input.items)]
        ELSE [type |-> "form", error |-> error, options |-> current]

\* rules a user may type: fixed and entity rules, with and without
\* filters, a rule with both price and entity, a rule with neither
OptionRules ==
    { FixedRule(200), FixedRule(0),
      [FixedRule(300) EXCEPT !.after = <<6, 0>>],
      EntityRule("sensor.price"),
      [EntityRule("sensor.price") EXCEPT !.start_date = Midnight(Tuesday)],
      [EntityRule("sensor.price") EXCEPT !.after = <<6, 0>>],
      [EntityRule("sensor.price") EXCEPT !.before = <<22, 30>>],
      [EntityRule("sensor.price") EXCEPT !.weekday = {0}],
      [FixedRule(200) EXCEPT !.entity_id = "sensor.price"],
      FixedRule(None) }

OptionItems == {Item(r) : r \in OptionRules} \cup {NotADict}

OptionInputs ==
    {NotJson, NotAList, JsonList(<<>>)}
    \cup {JsonList(<<a>>) : a \in OptionItems}
    \cup {JsonList(<<a, b>>) : a \in OptionItems, b \in OptionItems}

\* the form is opened (user_input is None): shown with no error
OpenForm ==
    /\ call' = [fn |-> "async_step_init", args |-> <<>>,
                ret |-> [type |-> "form", error |-> "",
                         options |-> cost_configs]]
    /\ UNCHANGED sync_vars

\* the form is submitted
SubmitOptions ==
    \E user_input \in OptionInputs :
        LET res == async_step_init(user_input, cost_configs)
        IN  /\ call' = [fn |-> "async_step_init", args |-> <<user_input>>,
                        ret |-> res]
            /\ cost_configs' = res.options
            /\ UNCHANGED <<clock, store, status, last_sync, listeners,
                           random_minute, created, tasks, peer>>

\* a sync computes costs with the rules the entry stores
ComputeWithStored ==
    \E energy \in CostEnergies, h \in CostHistories :
        /\ call' = [fn |-> "compute_costs",
                    args |-> <<energy, cost_configs, h>>,
                    ret |-> IF compute_costs_raises(energy, cost_configs, h)
                            THEN [raised |-> TRUE, costs |-> <<>>]
                            ELSE [raised |-> FALSE,
                                  costs |-> compute_costs(energy, cost_configs, h)]]
        /\ UNCHANGED sync_vars

OptionsNext == OpenForm \/ SubmitOptions \/ ComputeWithStored

SpecOptions == QuietInit /\ [][OptionsNext]_vars

(***************************************************************************)
(* statistics_helper.py taken alone: aggregator and series builders       *)
(***************************************************************************)

\* points of the night the clocks go back (03:00 at +02:00 becomes 02:00 at
\* +01:00), as a CSV export writes them with their UTC offset, and points
\* without offset, as normalized from the API
StatsAware ==
    { <<1 * 60 + 30, 120>>, <<2 * 60, 120>>, <<2 * 60 + 30, 120>>,
      <<2 * 60, 60>>, <<2 * 60 + 30, 60>>, <<3 * 60, 60>> }

StatsNaive ==
    { <<1 * 60 + 30, Naive>>, <<2 * 60, Naive>>, <<2 * 60 + 30, Naive>>,
      <<3 * 60, Naive>> }

StatsValues == {1000000, 2500000}

PointsAt(times) ==
    { [date |-> Midnight(Monday) + t[1], tz |-> t[2], value |-> v] :
        t \in times, v \in StatsValues }

\* sequences of at most three points, in any order
UpToThree(S) ==
    {<<>>} \cup {<<a>> : a \in S} \cup {<<a, b>> : a \in S, b \in S}
           \cup {<<a, b, c>> : a \in S, b \in S, c \in S}

GroupInputs == UpToThree(PointsAt(StatsAware)) \cup UpToThree(PointsAt(StatsNaive))

\* ordered sequences of at most three hourly points, values of either sign
SeriesValues == {0 - 1000000, 0, 1500000, 2500000}

HourlyPoint(i, v) ==
    [date |-> Midnight(Monday) + i * 60, tz |-> Naive, value |-> v]

OrderedInputs ==
    {<<>>} \cup {<<HourlyPoint(1, a)>> : a \in SeriesValues}
    \cup {<<HourlyPoint(1, a), HourlyPoint(2, b)>> :
            a \in SeriesValues, b \in SeriesValues}
    \cup {<<HourlyPoint(1, a), HourlyPoint(2, b), HourlyPoint(3, c)>> :
            a \in SeriesValues, b \in SeriesValues, c \in SeriesValues}

\* base sums: none, the sum of a stored series, a negative one
BaseSums == {0, 7000000, 0 - 500000}

CallGroupByHour ==
    \E data \in GroupInputs :
        Called("group_by_hour", <<data>>, group_by_hour(data))

CallFormatAsStatistics ==
    \E data \in OrderedInputs :
        Called("format_as_statistics", <<data>>, format_as_statistics(data))

CallIncrementSums ==
    \E data \in OrderedInputs, base_sum \in BaseSums :
        LET series == format_as_statistics(data)
        IN  Called("increment_sums", <<series, base_sum>>,
                   [series |-> increment_sums(series, base_sum),
                    input |-> increment_sums_input(series, base_sum)])

StatsNext == CallGroupByHour \/ CallFormatAsStatistics \/ CallIncrementSums

SpecStats == QuietInit /\ [][StatsNext]_vars

(***************************************************************************)
(* The normalizer taken alone: format_daily_data, format_load_curve and    *)
(* coordinator._format_raw_data on batches of raw readings                 *)
(***************************************************************************)

\* interval_length of a raw reading: missing (daily endpoint), the steps
\* the load-curve endpoint reports, a descriptor without a number
RawDescriptors == {"", "PT30M", "PT60M", "PT15M", "PT10M", "PTM"}

\* reported dates: a midnight, 00:30 and 01:00 of the same day
RawDates == {Midnight(BaseDay), Midnight(BaseDay) + 30, Midnight(BaseDay) + 60}

RawReadings ==
    { Reading(d, v, il) : d \in RawDates, v \in StatsValues, il \in RawDescriptors }

\* batches of one or two readings, the two of any kind
RawBatches == {<<a>> : a \in RawReadings} \cup {<<a, b>> : a, b \in RawReadings}

CallFormatRawData ==
    \E raw \in {<<>>} \cup RawBatches :
        Called("format_raw_data", <<raw>>, format_raw_data(raw))

CallFormatLoadCurve ==
    \E a \in RawReadings :
        Called("format_load_curve", <<(<<a>>)>>, format_load_curve(<<a>>))

CallFormatDailyData ==
    \E a \in RawReadings :
        Called("format_daily_data", <<(<<a>>)>>, format_daily_data(<<a>>))

FormatNext == CallFormatRawData \/ CallFormatLoadCurve \/ CallFormatDailyData

SpecFormat == QuietInit /\ [][FormatNext]_vars

(***************************************************************************)
(* The CSV import service (__init__.py)                                   *)
(***************************************************************************)

\* float(raw_kw) of a kW cell after "," -> "." and "null" -> "0", in
\* thousandths of a kW
ParseKw(text) ==
    CASE text = "1,5" -> 1500
      [] text = "0.5" -> 500
      [] text = "2" -> 2000
      [] text = "null" -> 0

\* format_history_file: Wh = kW * 1000, date = the parsed "debut"
format_history_point(r) ==
    [date |-> r.debut, tz |-> r.tz, value |-> 1000 * ParseKw(r.kW)]

format_history_file(records) ==
    [i \in 1..Len(records) |-> format_history_point(records[i])]

\* rows _read_csv keeps (debut and kW not empty): half hours of the night
\* of BaseDay - 100, "debut" written without UTC offset
CsvRows ==
    { [debut |-> Midnight(BaseDay - 100) + h * 60 + m, tz |-> Naive, kW |-> k] :
        h \in {22, 23}, m \in {0, 30}, k \in {"1,5", "null"} }
    \cup
    { [debut |-> Midnight(BaseDay - 100) + 23 * 60, tz |-> Naive, kW |-> k] :
        k \in {"0.5", "2"} }

\* files of one to three rows, in the order of the file
CsvFiles == UpToThree(CsvRows) \ {<<>>}

\* the store before the import: empty, or with an energy series ending at
\* 23:00 of BaseDay - 100 or of BaseDay - 3
ImportStores == InitialStores

\* handle_import_csv(file_path, prm, production): the file exists and has
\* rows; import_statistics succeeds
ImportCsv ==
    \E records \in CsvFiles, production \in BOOLEAN :
        LET data_points == format_history_file(records)
            stats == format_as_statistics(group_by_hour(data_points))
            id == get_statistic_id(Prm, production, FALSE)
        IN  /\ store' = Write(store, id, stats)
            /\ call' = [fn |-> "import_csv", args |-> <<records, production>>,
                        ret |-> stats]
            /\ UNCHANGED <<clock, cost_configs, status, last_sync, listeners,
                           random_minute, created, tasks, peer>>

\* handle_import_csv returns early: no file at the path, or no row kept
ImportNothing ==
    /\ call' = [fn |-> "import_csv", args |-> <<<<>>, FALSE>>, ret |-> <<>>]
    /\ UNCHANGED sync_vars

ImportInit ==
    /\ clock = 1
    /\ store \in ImportStores
    /\ cost_configs = <<>>
    /\ status = "pending"
    /\ last_sync = None
    /\ listeners = {}
    /\ random_minute = None
    /\ created = 0
    /\ tasks = [r \in Slots |-> Idle]
    /\ call = NoCall
    /\ peer = NoPeer

ImportNext == (call = NoCall /\ ImportCsv) \/ (call = NoCall /\ ImportNothing)

SpecImport == ImportInit /\ [][ImportNext]_vars

(***************************************************************************)
(* Properties                                                              *)
(***************************************************************************)

InFlight(r) == tasks[r].pc \notin {"idle", "done"}

\* the step in which task r ends
Ends(r) == tasks[r].pc # "done" /\ tasks'[r].pc = "done"

RECURSIVE SumStates(_, _)
SumStates(stats, k) ==
    IF k = 0 THEN 0 ELSE stats[k].state + SumStates(stats, k - 1)

\* every sum of the series is base plus the states up to that point
ContinuesFrom(stats, base) ==
    \A k \in 1..Len(stats) : stats[k].sum = base + SumStates(stats, k)

\* the writes of series id that task frame t has logged
WritesOf(t, id) == {i \in 1..Len(t.writes) : t.writes[i].id = id}

\* C1: for one orchestrator, no two sync runs are ever in flight at the
\* same time (a trigger arriving during a run is serialized or dropped).
C1_NoOverlap == Cardinality({r \in Slots : InFlight(r)}) <= 1

\* C2: a sync run in which a remote metering call failed with AuthError or
\* ConnectionError finishes with status 'error', never 'ok'.
C2_AuthConnEndsError ==
    \A r \in Slots :
        ( /\ tasks[r].pc = "done"
          /\ \E i \in 1..Len(tasks[r].calls) :
                tasks[r].calls[i].outcome \in {"auth", "conn"} )
        => tasks[r].result = "error" /\ status = "error"

\* no window is requested twice and no series is written twice by a run
NoRepeat(t) ==
    /\ \A i, j \in 1..Len(t.calls) :
          i < j => <<t.calls[i].kind, t.calls[i].from, t.calls[i].to>>
                   # <<t.calls[j].kind, t.calls[j].from, t.calls[j].to>>
    /\ \A i, j \in 1..Len(t.writes) : i < j => t.writes[i].id # t.writes[j].id

C4_ModeFromStore ==
    [][\A r \in Slots :
          ( /\ tasks[r].pc = "is_new"
            /\ tasks'[r].pc # "is_new"
            /\ tasks'[r].exc = "none" )
          => /\ tasks'[r].mode = "init" <=> ~store[EnergyId].exists
             /\ tasks'[r].mode = "incr" <=> store[EnergyId].exists]_vars

\* a run initializes although an earlier run of the orchestrator ended ok
C4_Witness ==
    \E r \in Slots :
        /\ tasks[r].mode = "init"
        /\ tasks[r].pc = "tier1"
        /\ last_sync # None
        /\ created = 2

\* C5: in an incremental run, a last stored start more recent than now - 2
\* days, or a local hour below 6, ends the run 'ok' with no remote call and
\* no store write; a last start older than 2 days with hour >= 6 proceeds
\* to the fetch.
C5_SkipRule ==
    [][\A r \in Slots :
          ( /\ tasks[r].pc = "find_last"
            /\ tasks'[r].pc # "find_last"
            /\ tasks'[r].exc = "none"
            /\ store[EnergyId].pts # {} )
          => LET last_start == LastOf(store[EnergyId]).start
             IN  /\ (last_start > now - 2 * DayMin \/ HourOf(now) < 6)
                    => /\ tasks'[r].pc = "done"
                       /\ tasks'[r].result = "ok"
                       /\ status' = "ok"
                       /\ tasks'[r].calls = <<>>
                       /\ tasks'[r].writes = <<>>
                       /\ store' = store
                 /\ (last_start < now - 2 * DayMin /\ HourOf(now) >= 6)
                    => /\ tasks'[r].pc = "tier1"
                       /\ Len(tasks'[r].calls) = 1]_vars

\* an incremental run skipped before 6 although its last point is older
\* than two days
C5_Witness ==
    \E r \in Slots :
        /\ tasks[r].pc = "done"
        /\ tasks[r].mode = "incr"
        /\ tasks[r].last_stat.found
        /\ tasks[r].last_stat.start < now - 2 * DayMin
        /\ HourOf(now) < 6
        /\ tasks[r].result = "ok"
        /\ tasks[r].calls = <<>>

\* C6: every energy series an incremental run writes continues the last
\* stored energy sum the run read: the sum of its k-th point is that sum
\* plus the states of its points 1..k.
C6_SumContinues ==
    \A r \in Slots :
        tasks[r].mode = "incr"
        => \A i \in WritesOf(tasks[r], EnergyId) :
              ContinuesFrom(tasks[r].writes[i].stats, tasks[r].last_stat.sum)

\* an incremental run wrote two energy points on top of a stored sum
C6_Witness ==
    \E r \in Slots :
        /\ tasks[r].mode = "incr"
        /\ tasks[r].last_stat.sum > 0
        /\ \E i \in WritesOf(tasks[r], EnergyId) :
              Len(tasks[r].writes[i].stats) >= 2

\* C7: an incremental run that fetches calls the tiered fetch with since =
\* the date of (last stored start + 1 day); an initializing run calls it
\* with no lower bound.
C7_FetchSince ==
    \A r \in Slots :
        tasks[r].calls # <<>>
        => /\ tasks[r].mode = "incr"
              => tasks[r].first_day = DateOf(tasks[r].last_stat.start + DayMin)
           /\ tasks[r].mode = "init" => tasks[r].first_day = None
           /\ tasks[r].calls[1].from
                = IF tasks[r].first_day # None
                     /\ tasks[r].today - 7 <= tasks[r].first_day
                  THEN tasks[r].first_day ELSE tasks[r].today - 7

\* an incremental run has issued its first call of the fetch
C7_Witness ==
    \E r \in Slots :
        /\ tasks[r].mode = "incr"
        /\ tasks[r].pc = "tier1"
        /\ tasks[r].first_day = DateOf(tasks[r].last_stat.start) + 1

\* the cost writes task r logs in this step
NewCostWrites(r) ==
    {i \in 1..Len(tasks'[r].writes) :
        i > Len(tasks[r].writes) /\ tasks'[r].writes[i].id = CostId}

\* C8: the cost series an incremental run persists is offset by the last
\* stored cost sum of the meter, or by 0 when the store holds no cost
\* statistic, never by the energy sum; an initializing run's cost series
\* starts from base 0.
C8_CostOffset ==
    [][\A r \in Slots :
          tasks[r].pc \notin {"idle", "done"}
          => \A i \in NewCostWrites(r) :
                ContinuesFrom(tasks'[r].writes[i].stats,
                    IF tasks'[r].mode = "incr" /\ store[CostId].pts # {}
                    THEN LastOf(store[CostId]).sum ELSE 0)]_vars

\* an incremental run wrote a cost series on top of a stored cost sum that
\* differs from the energy sum it read
C8_Witness ==
    \E r \in Slots :
        /\ tasks[r].pc = "done"
        /\ tasks[r].mode = "incr"
        /\ tasks[r].last_cost.found
        /\ tasks[r].last_cost.sum # tasks[r].last_stat.sum
        /\ \E i \in WritesOf(tasks[r], CostId) :
              /\ tasks[r].writes[i].stats # <<>>
              /\ tasks[r].writes[i].stats[1].sum
                   = tasks[r].last_cost.sum + tasks[r].writes[i].stats[1].state

\* C9: last_sync is set to the completion time by every run that ends
\* 'ok', left unchanged by every run that ends 'error', and changed by
\* nothing else.
C9_LastSync ==
    [][/\ \A r \in Slots :
             Ends(r)
             => /\ tasks'[r].result = "ok" => last_sync' = now
                /\ tasks'[r].result = "error" => last_sync' = last_sync
       /\ last_sync' # last_sync
          => \E r \in Slots : Ends(r) /\ tasks'[r].result = "ok"]_vars

\* a run ended 'error' after an earlier run had set last_sync
C9_Witness ==
    \E r \in Slots :
        /\ tasks[r].pc = "done"
        /\ tasks[r].result = "error"
        /\ last_sync # None
        /\ last_sync < now

\* C10: whenever the load-curve call of a fetch fails, the fetch goes on to
\* a first daily call whose window ends at today (cursor unchanged).
C10_LoadCurveFailureProceeds ==
    \A r \in Slots :
        ( /\ Len(tasks[r].calls) >= 1
          /\ tasks[r].calls[1].outcome \in ApiErrors )
        => /\ Len(tasks[r].calls) >= 2
           /\ tasks[r].calls[2].kind = "daily"
           /\ tasks[r].calls[2].to = tasks[r].today

(***************************************************************************)
(* Properties of the tiered fetch (SpecFetch)                              *)
(***************************************************************************)

\* days a tier reaches back: 7 for the load curve, 179 for a daily tier
TierDays(kind) == IF kind = "load_curve" THEN 7 ELSE 179

RECURSIVE OkDays(_, _)
\* the days the calls 1..k that succeeded have moved the cursor back
OkDays(calls, k) ==
    IF k = 0 THEN 0
    ELSE OkDays(calls, k - 1)
         + (IF calls[k].outcome = "ok" THEN TierDays(calls[k].kind) ELSE 0)

\* the start the i-th call of a fetch has before any clamping
ComputedStart(t, i) ==
    t.today - OkDays(t.calls, i - 1) - TierDays(t.calls[i].kind)

\* C11: when since is provided, no remote call starts earlier than since; a
\* tier whose computed start is at or before since is requested with start
\* = since and is the last call of the fetch; a tier whose computed start
\* is later than since is requested from its computed start.
C11_NeverBeforeSince ==
    \A r \in Slots :
        tasks[r].first_day # None
        => \A i \in 1..Len(tasks[r].calls) :
              /\ tasks[r].calls[i].from >= tasks[r].first_day
              /\ ComputedStart(tasks[r], i) <= tasks[r].first_day
                 => /\ tasks[r].calls[i].from = tasks[r].first_day
                    /\ Len(tasks[r].calls) = i
              /\ ComputedStart(tasks[r], i) > tasks[r].first_day
                 => tasks[r].calls[i].from = ComputedStart(tasks[r], i)

\* a fetch ended after its first daily call, whose start was clamped to a
\* since lying inside the first daily window
C11_Witness ==
    \E r \in Slots :
        /\ tasks[r].pc = "done"
        /\ tasks[r].first_day # None
        /\ Len(tasks[r].calls) = 2
        /\ tasks[r].calls[1].outcome = "ok"
        /\ tasks[r].calls[2].outcome = "ok"
        /\ tasks[r].calls[2].from = tasks[r].first_day
        /\ tasks[r].first_day > tasks[r].today - 186

\* a fetch with since = today - 400 whose three calls have succeeded
SinceFourHundred(t) ==
    /\ t.first_day # None
    /\ t.first_day = t.today - 400
    /\ Len(t.calls) = 3
    /\ \A i \in 1..3 : t.calls[i].outcome = "ok"

\* C12 as stated: with since = today - 400 and three successful calls, the
\* final daily tier starts at since and the limit-reached flag is set.
C12_FinalTierClamped ==
    \A r \in Slots :
        SinceFourHundred(tasks[r])
        => /\ tasks[r].calls[3].from = tasks[r].first_day
           /\ tasks[r].limit_reached

\* C12 amended: with since = today - 400 and three successful calls, the
\* final daily tier starts at today - 365, later than since and unclamped,
\* the limit-reached flag stays unset, and the fetch ends because both
\* daily iterations are used up.
C12_FinalTierAtOneYear ==
    \A r \in Slots :
        SinceFourHundred(tasks[r])
        => /\ tasks[r].calls[3].kind = "daily"
           /\ tasks[r].calls[3].from = tasks[r].today - 365
           /\ tasks[r].calls[3].from > tasks[r].first_day
           /\ ~tasks[r].limit_reached
           /\ tasks[r].loop = 2
           /\ tasks[r].pc \notin {"tier1", "daily"}

\* the run of such a fetch has ended
C12_Witness ==
    \E r \in Slots : SinceFourHundred(tasks[r]) /\ tasks[r].pc = "done"

\* the number of calls of a fetch that succeeded
OkCalls(calls) == Cardinality({i \in 1..Len(calls) : calls[i].outcome = "ok"})

\* C13: when a daily call fails with a ConsoApiError (a history-exhausted
\* message or any other), no further call is issued, the failure does not
\* leave the fetch, and the run goes on with exactly the readings of the
\* tiers that succeeded before: nothing to do when there are none, else
\* their statistics are what is written.
C13_DailyFailureKeepsEarlier ==
    [][\A r \in Slots :
          ( /\ tasks[r].pc = "daily"
            /\ tasks'[r].pc # "daily"
            /\ tasks'[r].calls[Len(tasks[r].calls)].outcome \in ApiErrors )
          => LET raw == Flatten(tasks[r].history)
                 stats == increment_sums(
                              format_as_statistics(
                                  group_by_hour(format_raw_data(raw))),
                              IF tasks[r].mode = "incr"
                              THEN tasks[r].last_stat.sum ELSE 0)
             IN  /\ Len(tasks'[r].calls) = Len(tasks[r].calls)
                 /\ tasks'[r].exc # "fetch"
                 /\ Len(tasks[r].history) = OkCalls(tasks[r].calls)
                 /\ raw = <<>>
                    => /\ tasks'[r].pc = "done"
                       /\ tasks'[r].result = "ok"
                       /\ tasks'[r].writes = <<>>
                       /\ store' = store
                 /\ (raw # <<>> /\ tasks'[r].exc = "none")
                    => /\ tasks'[r].writes = <<[id |-> EnergyId, stats |-> stats]>>
                       /\ store' = [store EXCEPT ![EnergyId] = Upsert(@, stats)]]_vars

\* a run wrote the load-curve readings although its first daily call failed
C13_Witness ==
    \E r \in Slots :
        /\ tasks[r].pc = "done"
        /\ tasks[r].result = "ok"
        /\ Len(tasks[r].calls) = 2
        /\ tasks[r].calls[1].outcome = "ok"
        /\ tasks[r].calls[2].outcome = "api"
        /\ WritesOf(tasks[r], EnergyId) # {}

(***************************************************************************)
(* Properties of the cost engine (SpecCost)                                *)
(***************************************************************************)

\* minutes since midnight
TimeOfDay(t) == t % DayMin

\* "HH" or "HH:MM" as minutes since midnight, the minute defaulting to 0
HourMinute(parts) == parts[1] * 60 + (IF Len(parts) > 1 THEN parts[2] ELSE 0)

\* the date, weekday and time-of-day filters of rule c accept the point:
\* start_date <= P < end_date, weekday listed, after <= time of day < before
FiltersAccept(point, c) ==
    /\ c.start_date = None \/ point.date >= c.start_date
    /\ c.end_date = None \/ point.date < c.end_date
    /\ c.weekday = {} \/ WeekdayOf(point.date) \in c.weekday
    /\ c.after = <<>> \/ TimeOfDay(point.date) >= HourMinute(c.after)
    /\ c.before = <<>> \/ TimeOfDay(point.date) < HourMinute(c.before)

\* a valid rule: exactly one of price (any number >= 0) / entity_id, and no
\* time filter on an entity rule
ValidRule(c) ==
    /\ (c.price # None) # (c.entity_id # "")
    /\ c.price # None => c.price >= 0
    /\ c.entity_id # "" => (c.weekday = {} /\ c.after = <<>> /\ c.before = <<>>)

ValidRules(configs) == \A i \in 1..Len(configs) : ValidRule(configs[i])

\* the lowest position whose filters accept the point, 0 when none does
FirstAccepting(point, configs) ==
    LET ok == {i \in 1..Len(configs) : FiltersAccept(point, configs[i])}
    IN  IF ok = {} THEN 0 ELSE CHOOSE i \in ok : \A j \in ok : i <= j

FixedOnly(configs) == \A i \in 1..Len(configs) : configs[i].price # None

RECURSIVE FirstMatchCosts(_, _, _)
\* the costs of the points i.. when each is priced by its first accepting
\* rule (fixed prices)
FirstMatchCosts(energy, configs, i) ==
    IF i > Len(energy) THEN <<>>
    ELSE LET m == FirstAccepting(energy[i], configs)
             rest == FirstMatchCosts(energy, configs, i + 1)
         IN  IF m = 0 THEN rest
             ELSE <<[date |-> energy[i].date, tz |-> energy[i].tz,
                     value |-> RoundHalfEven(configs[m].price * energy[i].value,
                                             1000 * 1000)]>> \o rest

\* C14: over every valid rule list, the rule used for a point is the
\* lowest-position rule whose date, weekday and time-of-day filters accept
\* it, and the cost of the point is the one that rule gives (fixed prices,
\* 0 included); no later rule contributes.
C14_FirstMatchWins ==
    /\ ( /\ call.fn = "find_matching_cost_config"
          /\ ValidRules(call.args[2]) )
       => call.ret = FirstAccepting(call.args[1], call.args[2])
    /\ ( /\ call.fn = "compute_costs"
          /\ ValidRules(call.args[2])
          /\ FixedOnly(call.args[2]) )
       => /\ ~call.ret.raised
          /\ call.ret.costs = FirstMatchCosts(call.args[1], call.args[2], 1)

\* the samples of an ascending series at or before the point
AtOrBefore(point, history) ==
    {i \in 1..Len(history) :
        Ordinal(history[i].timestamp, history[i].tz)
            <= Ordinal(point.date, point.tz)}

\* the value of the last sample at or before the point, None when none is
LastKnownPrice(point, history) ==
    LET S == AtOrBefore(point, history)
    IN  IF S = {} THEN None
        ELSE history[CHOOSE i \in S : \A j \in S : j <= i].value

\* the samples compute_costs is given for the entity
SamplesOf(h) == IF h = HistNone THEN <<>> ELSE h["sensor.price"]

\* C15: for an entity-priced rule the price of a point is the value of the
\* last sample at or before it (a sample at exactly its timestamp counts);
\* with no such sample, or no samples, no cost point is emitted for it,
\* never a zero cost and never an error.
C15_LastSampleAtOrBefore ==
    /\ call.fn = "find_price_from_entity_history"
       => /\ call.ret # Raised
          /\ call.ret = LastKnownPrice(call.args[1], SamplesOf(call.args[2]))
    /\ ( /\ call.fn = "compute_costs"
          /\ call.args[2] = <<EntityRule("sensor.price")>>
          /\ Len(call.args[1]) = 1 )
       => LET point == call.args[1][1]
              price == LastKnownPrice(point, SamplesOf(call.args[3]))
          IN  /\ ~call.ret.raised
              /\ price = None => call.ret.costs = <<>>
              /\ price # None
                 => call.ret.costs =
                      <<[date |-> point.date, tz |-> point.tz,
                         value |-> RoundHalfEven(price * point.value,
                                                 1000 * 1000)]>>

(***************************************************************************)
(* Properties of the options flow (SpecOptions)                            *)
(***************************************************************************)

\* exactly one of price / entity_id is set, and an entity-priced rule
\* carries no after, before or weekday
WellFormedRule(c) ==
    /\ (c.price # None) # (c.entity_id # "")
    /\ c.entity_id # "" => (c.after = <<>> /\ c.before = <<>> /\ c.weekday = {})

WellFormedItems(items) ==
    \A i \in 1..Len(items) : items[i].dict /\ WellFormedRule(items[i].rule)

WellFormedRules(configs) ==
    \A i \in 1..Len(configs) : WellFormedRule(configs[i])

\* C16: the options flow stores a submitted list only if every rule has
\* exactly one of price / entity_id and no entity rule carries after, before
\* or weekday; a list violating this is answered with an error and the
\* stored rules stay as they were; the rules compute_costs receives from
\* the entry are always well formed.
C16_OnlyValidRulesStored ==
    [][ /\ ( /\ call'.fn = "async_step_init"
              /\ call'.args # <<>> )
           => LET user_input == call'.args[1]
                  violating == \/ user_input.kind # "list"
                               \/ ~WellFormedItems(user_input.items)
              IN  /\ call'.ret.type = "create_entry"
                     => /\ ~violating
                        /\ cost_configs' = StoredRules(user_input.items)
                  /\ violating
                     => /\ call'.ret.type = "form"
                        /\ call'.ret.error # ""
                        /\ cost_configs' = cost_configs
        /\ cost_configs' # cost_configs
           => /\ call'.fn = "async_step_init"
              /\ call'.ret.type = "create_entry"
        /\ WellFormedRules(cost_configs')
        /\ call'.fn = "compute_costs" => WellFormedRules(call'.args[2])
      ]_vars

\* a list with an entity rule carrying a time filter was rejected while
\* rules were stored, and they are still stored
C16_Witness ==
    /\ call.fn = "async_step_init"
    /\ call.args # <<>>
    /\ call.ret.type = "form"
    /\ call.ret.error = "entity_with_time_filter"
    /\ cost_configs = <<FixedRule(200), EntityRule("sensor.price")>>

(***************************************************************************)
(* Properties of the normalizer and the series builders                    *)
(***************************************************************************)

\* C17: a raw reading without its date or its value is dropped silently by
\* the normalizer: normalizing never raises, so no sync run ends in 'error'
\* because of a malformed reading.
C17_MalformedReadingDropped ==
    \A r \in Slots :
        ~( /\ tasks[r].exc = "format"
           /\ tasks[r].result = "error" )

\* C18: group_by_hour returns exactly one point per distinct hour key of
\* its input, the points in strictly ascending order of their timestamps
\* (so no two at the same timestamp), and the empty sequence for the empty
\* input.
C18_OnePointPerHourAscending ==
    call.fn = "group_by_hour"
    => LET data == call.args[1]
           out == call.ret
           keys == {GroupKey(data[i]) : i \in 1..Len(data)}
       IN  /\ Len(out) = Cardinality(keys)
           /\ {<<out[i].date, out[i].tz>> : i \in 1..Len(out)} = keys
           /\ \A i \in 1..Len(out) : \A j \in 1..Len(out) :
                 i < j => Ordinal(out[i].date, out[i].tz)
                            < Ordinal(out[j].date, out[j].tz)
           /\ data = <<>> => out = <<>>

\* C19: format_as_statistics returns as many points as it is given, with
\* state_i = value_i, sum_1 = value_1 and sum_i = value_i + sum_(i-1); the
\* sums never decrease when every value is >= 0.
C19_CumulativeSums ==
    call.fn = "format_as_statistics"
    => LET data == call.args[1]
           out == call.ret
       IN  /\ Len(out) = Len(data)
           /\ \A i \in 1..Len(out) :
                 /\ out[i].start = data[i].date
                 /\ out[i].state = data[i].value
                 /\ out[i].sum = data[i].value
                                  + (IF i = 1 THEN 0 ELSE out[i - 1].sum)
           /\ (\A i \in 1..Len(data) : data[i].value >= 0)
              => \A i \in 2..Len(out) : out[i - 1].sum <= out[i].sum

\* three points were converted, none negative, the last two positive
C19_Witness ==
    /\ call.fn = "format_as_statistics"
    /\ Len(call.args[1]) = 3
    /\ call.args[1][1].value = 0
    /\ call.args[1][2].value > 0
    /\ call.ret[3].sum = call.args[1][2].value + call.args[1][3].value
    /\ call.ret[3].sum > call.ret[2].sum

\* C20: increment_sums returns a series of the same length and starts whose
\* sums are the input's plus base and whose states are the input's; with
\* base 0 the sums are the input's; the input series is left as it was.
C20_IncrementSums ==
    call.fn = "increment_sums"
    => LET data == call.args[1]
           base == call.args[2]
           out == call.ret.series
       IN  /\ Len(out) = Len(data)
           /\ \A i \in 1..Len(out) :
                 /\ out[i].start = data[i].start
                 /\ out[i].state = data[i].state
                 /\ out[i].sum = data[i].sum + base
                 /\ base = 0 => out[i].sum = data[i].sum
           /\ call.ret.input = data

\* a three-point series was offset by a base other than 0
C20_Witness ==
    /\ call.fn = "increment_sums"
    /\ Len(call.args[1]) = 3
    /\ call.args[2] = 7000000
    /\ call.ret.series[3].sum = call.args[1][3].sum + 7000000
    /\ call.ret.series[3].state = 2500000

(***************************************************************************)
(* Properties of teardown, isolation and the services                      *)
(***************************************************************************)

\* async_teardown has returned
TornDown == listeners = {} /\ random_minute # None

\* C21: once async_teardown has returned no new sync run starts (no
\* trigger creates a task); teardown itself leaves the runs in flight and
\* the status as they are, and a run in flight after teardown still ends
\* with status 'ok' or 'error'.
C21_TeardownKeepsRunning ==
    /\ [][ /\ TornDown
              => /\ created' = created
                 /\ \A r \in Slots :
                       tasks[r].pc = "idle" => tasks'[r].pc = "idle"
           /\ (listeners # {} /\ listeners' = {})
              => /\ tasks' = tasks
                 /\ status' = status
         ]_vars
    /\ \A r \in Slots :
          (TornDown /\ InFlight(r))
            ~> ( /\ tasks[r].pc = "done"
                 /\ tasks[r].result \in {"ok", "error"}
                 /\ status = tasks[r].result )

\* after teardown the clock has reached 06:10, the time the listeners were
\* tracking, and the only run is the one setup started, still in flight
C21_Witness ==
    /\ TornDown
    /\ HourOf(now) = 6
    /\ MinuteOf(now) = random_minute
    /\ created = 1
    /\ \E r \in Slots : InFlight(r) /\ Len(tasks[r].calls) >= 1

\* C22: a step of one coordinator's run changes only that coordinator's
\* energy and cost series, status and last_sync, whether the step succeeds
\* or fails, and what a run decides (initializing or incremental, the last
\* stored point) is read from its own series.
C22_Isolation ==
    [][ /\ tasks'[1] # tasks[1]
           => /\ peer' = peer
              /\ \A id \in ProductionIds : store'[id] = store[id]
        /\ tasks'[2] # tasks[2]
           => /\ status' = status
              /\ last_sync' = last_sync
              /\ \A id \in ConsumptionIds : store'[id] = store[id]
        /\ (tasks[1].mode = "none" /\ tasks'[1].mode # "none")
           => (tasks'[1].mode = "init"
                 <=> ~store[get_statistic_id(Prm, FALSE, FALSE)].exists)
        /\ (tasks[2].mode = "none" /\ tasks'[2].mode # "none")
           => (tasks'[2].mode = "init"
                 <=> ~store[get_statistic_id(Prm, TRUE, FALSE)].exists)
        /\ ( /\ tasks[1].pc = "find_last"
             /\ tasks'[1] # tasks[1]
             /\ tasks'[1].exc = "none" )
           => tasks'[1].last_stat
                = LastOf(store[get_statistic_id(Prm, FALSE, FALSE)])
        /\ ( /\ tasks[2].pc = "find_last"
             /\ tasks'[2] # tasks[2]
             /\ tasks'[2].exc = "none" )
           => tasks'[2].last_stat
                = LastOf(store[get_statistic_id(Prm, TRUE, FALSE)])
      ]_vars

\* the consumption run has failed and left its side of the store empty
\* while the production run has ended 'ok' and written its two series
C22_Witness ==
    /\ status = "error"
    /\ peer.status = "ok"
    /\ peer.last_sync # None
    /\ last_sync = None
    /\ \A id \in ConsumptionIds : ~store[id].exists
    /\ \A id \in ProductionIds : store[id].exists

\* the energy series task r writes in this step
EnergyWritten(r) ==
    LET w == WritesOf(tasks'[r], EnergyId) \ WritesOf(tasks[r], EnergyId)
    IN  {tasks'[r].writes[i].stats : i \in w}

\* C23: the reset service removes the energy series and the cost series of
\* the given meter and side from the store and leaves every other series as
\* it is; after a reset the energy series is next written by a run in the
\* initializing branch, with sums accumulated from base 0.
C23_ResetThenInitialize ==
    [][ /\ (call'.fn = "reset_statistics" /\ call' # call)
           => /\ store'[EnergyId] = NoSeries
              /\ store'[CostId] = NoSeries
              /\ \A id \in SeriesIds \ {EnergyId, CostId} :
                    store'[id] = store[id]
        /\ ( /\ call.fn = "reset_statistics"
              /\ ~store[EnergyId].exists
              /\ store'[EnergyId].exists )
           => \E r \in Slots :
                 /\ EnergyWritten(r) # {}
                 /\ tasks[r].mode = "init"
                 /\ \A stats \in EnergyWritten(r) : ContinuesFrom(stats, 0)
      ]_vars

\* C24: after a successful CSV import the stored energy series of the
\* meter consists exactly of the imported hourly points, with sums
\* accumulated from base 0, whatever the store held for it before.
C24_ImportReplaces ==
    (call.fn = "import_csv" /\ call.args[1] # <<>>)
    => LET stats == call.ret
           id == get_statistic_id(Prm, call.args[2], FALSE)
       IN  /\ ContinuesFrom(stats, 0)
           /\ store[id].exists
           /\ store[id].pts = {StatisticData(stats[i]) : i \in 1..Len(stats)}

(***************************************************************************)
(* Properties of the tier windows and of the order of the readings         *)
(***************************************************************************)

\* the calls before the i-th that succeeded
OkBefore(calls, i) == {j \in 1..(i - 1) : calls[j].outcome = "ok"}

\* the i-th call ends at the cursor: today minus the days of the tiers
\* that succeeded before it, which is where the last of them starts
EndsAtCursor(t, i) ==
    /\ t.calls[i].to = t.today - OkDays(t.calls, i - 1)
    /\ OkBefore(t.calls, i) # {}
       => LET j == CHOOSE k \in OkBefore(t.calls, i) :
                       \A m \in OkBefore(t.calls, i) : m <= k
          IN  t.calls[i].to = t.calls[j].from

\* C25 as stated: every daily call requests a window of 179 days ending at
\* the cursor (the start of the previous successful tier), and no call of
\* a fetch starts earlier than today - 365.
C25_DailyWindows ==
    \A r \in Slots :
        \A i \in 1..Len(tasks[r].calls) :
            /\ tasks[r].calls[i].from >= tasks[r].today - 365
            /\ tasks[r].calls[i].kind = "daily"
               => /\ tasks[r].calls[i].to - tasks[r].calls[i].from = 179
                  /\ EndsAtCursor(tasks[r], i)

\* C25 amended: every daily call ends at the cursor (the start of the
\* previous successful tier); its window is 179 days long unless its start
\* is clamped to since, and then it starts at since and is at most 179
\* days long; no call of a fetch starts earlier than today - 365.
C25_DailyWindowsUnlessClamped ==
    \A r \in Slots :
        \A i \in 1..Len(tasks[r].calls) :
            /\ tasks[r].calls[i].from >= tasks[r].today - 365
            /\ tasks[r].calls[i].kind = "daily"
               => /\ EndsAtCursor(tasks[r], i)
                  /\ ~Clamped(ComputedStart(tasks[r], i), tasks[r].first_day)
                     => tasks[r].calls[i].to - tasks[r].calls[i].from = 179
                  /\ Clamped(ComputedStart(tasks[r], i), tasks[r].first_day)
                     => /\ tasks[r].calls[i].from = tasks[r].first_day
                        /\ tasks[r].calls[i].to - tasks[r].calls[i].from > 0
                        /\ tasks[r].calls[i].to - tasks[r].calls[i].from <= 179

\* a fetch made its second daily call after two successes, with a start
\* clamped to a since inside the second daily window
C25_Witness ==
    \E r \in Slots :
        /\ Len(tasks[r].calls) = 3
        /\ tasks[r].calls[1].outcome = "ok"
        /\ tasks[r].calls[2].outcome = "ok"
        /\ tasks[r].calls[2].to - tasks[r].calls[2].from = 179
        /\ tasks[r].calls[3].to = tasks[r].calls[2].from
        /\ tasks[r].calls[3].from = tasks[r].first_day
        /\ tasks[r].calls[3].to - tasks[r].calls[3].from < 179

\* the calls of a fetch that succeeded, in the order they were made
OkIdx(calls) == SortedSeq({i \in 1..Len(calls) : calls[i].outcome = "ok"})

\* every dated reading of batch a is earlier than every dated reading of b
BatchBefore(a, b) ==
    \A i \in 1..Len(a) : \A j \in 1..Len(b) :
        (a[i].date # None /\ b[j].date # None) => a[i].date < b[j].date

\* C26: the readings a fetch hands on are those of the tiers that
\* succeeded, oldest tier first: the batch of a tier fetched later stands
\* before the batches of the tiers fetched earlier (the load curve's last),
\* earlier readings before later ones, and the normalizer is given the
\* concatenation in that order.
C26_OldestTierFirst ==
    \A r \in Slots :
        tasks[r].pc \in {"tier1", "daily", "entity_hist", "last_cost"}
        => LET t == tasks[r]
               ok == OkIdx(t.calls)
               n == Len(t.history)
           IN  /\ n = Len(ok)
               /\ \A k \in 1..n :
                     t.history[k] \in Batches(t.calls[ok[n - k + 1]])
               /\ \A k \in 1..n : \A m \in 1..n :
                     k < m => BatchBefore(t.history[k], t.history[m])
               /\ (n > 0 /\ t.calls[1].outcome = "ok")
                  => t.history[n] \in Batches(t.calls[1])
               /\ t.energy_data # <<>>
                  => t.energy_data = format_raw_data(Flatten(t.history))

\* three tiers were fetched, each with readings, and their normalized
\* readings are kept for the cost computation: the older daily reading,
\* the newer daily reading, then the two load-curve readings
C26_Witness ==
    \E r \in Slots :
        /\ tasks[r].pc = "entity_hist"
        /\ Len(tasks[r].calls) = 3
        /\ Len(tasks[r].history) = 3
        /\ Len(tasks[r].energy_data) = 4
        /\ tasks[r].energy_data[1].date = Midnight(tasks[r].today - 365)
        /\ tasks[r].energy_data[2].date = Midnight(tasks[r].today - 186)
        /\ tasks[r].energy_data[4].date > tasks[r].energy_data[3].date
        /\ tasks[r].energy_data[3].date > tasks[r].energy_data[2].date

\* the cost points a call of compute_costs returns for the point
CostsFor(point, costs) ==
    {k \in 1..Len(costs) : costs[k].date = point.date /\ costs[k].tz = point.tz}

\* C27: a rule accepts a point exactly when start_date <= P (or absent),
\* P < end_date (or absent), the weekday list is empty or holds P's weekday,
\* after <= P's hour:minute (or absent, minute defaulting to 0) and
\* P's hour:minute < before (or absent); a point no rule accepts gets no
\* cost point.
C27_RuleAcceptance ==
    /\ ( /\ call.fn = "find_matching_cost_config"
          /\ Len(call.args[2]) = 1
          /\ ValidRule(call.args[2][1]) )
       => call.ret = (IF FiltersAccept(call.args[1], call.args[2][1]) THEN 1 ELSE 0)
    /\ ( /\ call.fn = "compute_costs"
          /\ ValidRules(call.args[2])
          /\ ~call.ret.raised )
       => \A i \in 1..Len(call.args[1]) :
              FirstAccepting(call.args[1][i], call.args[2]) = 0
                  => CostsFor(call.args[1][i], call.ret.costs) = {}

\* C28: when the first rule accepting a point is a fixed-price rule, its
\* price is the price of the point, 0 included: the point gets one cost
\* point, of value price * energy / 1000 (0 for price 0), and no later rule
\* prices it.
C28_FixedPriceUsedDirectly ==
    ( /\ call.fn = "compute_costs"
      /\ ValidRules(call.args[2])
      /\ ~call.ret.raised )
    => \A i \in 1..Len(call.args[1]) :
           LET point == call.args[1][i]
               m == FirstAccepting(point, call.args[2])
           IN  (m # 0 /\ call.args[2][m].price # None)
               => /\ Cardinality(CostsFor(point, call.ret.costs)) = 1
                  /\ \A k \in CostsFor(point, call.ret.costs) :
                         call.ret.costs[k].value
                             = RoundHalfEven(call.args[2][m].price * point.value,
                                             1000 * 1000)

\* the unit holds the marker, whatever the case of its letters
HasMarker(marker, unit) ==
    \E i \in 1..Len(unit) : \E j \in i..Len(unit) :
        Lower(SubSeq(unit, i, j)) = Lower(marker)

\* "cent", the cent sign or "c" followed by the euro sign
CentsMarker(unit) ==
    \/ HasMarker(<<"c", "e", "n", "t">>, unit)
    \/ HasMarker(<<"CENT_SIGN">>, unit)
    \/ HasMarker(<<"c", "EURO">>, unit)

\* "EUR/MWh" or the euro sign followed by "/MWh"
PerMWh(unit) ==
    \/ HasMarker(<<"E", "U", "R", "/", "M", "W", "h">>, unit)
    \/ HasMarker(<<"EURO", "/", "M", "W", "h">>, unit)

\* C29: the unit conversion checks cents first: a unit with a cents marker
\* ("cent", the cent sign, "c" + euro sign, in any case) divides the price
\* by 100 even when it also denotes per-MWh; a currency-per-MWh unit without
\* a cents marker divides by 1000; an absent or unrecognized unit leaves
\* the price unchanged.
C29_CentsFirst ==
    call.fn = "convert_price_unit"
    => LET price == call.args[1]
           unit == call.args[2]
       IN  call.ret = (IF CentsMarker(unit) THEN price \div 100
                       ELSE IF PerMWh(unit) THEN price \div 1000
                       ELSE price)

\* a price in cents per MWh was divided by 100, not by 1000
C29_Witness ==
    /\ call.fn = "convert_price_unit"
    /\ CentsMarker(call.args[2])
    /\ PerMWh(call.args[2])
    /\ call.ret = call.args[1] \div 100
    /\ call.ret # call.args[1] \div 1000

\* the number of minutes a descriptor declares, 1 when it declares none
DeclaredMinutes(il) ==
    CASE il = "PT30M" -> 30
      [] il = "PT60M" -> 60
      [] il = "PT15M" -> 15
      [] il = "PT10M" -> 10
      [] OTHER -> 1

\* the reading shifted from the end to the start of its interval
AtIntervalStart(r) ==
    [date |-> r.date - DeclaredMinutes(r.interval_length), tz |-> r.tz,
     value |-> r.value]

\* the reading as reported
AsReported(r) == [date |-> r.date, tz |-> r.tz, value |-> r.value]

\* C30: each raw reading of a batch is classified on its own by the
\* presence of interval_length; a load-curve reading becomes a point at its
\* reported end minus the declared number of minutes (1 minute when the
\* descriptor is absent or has no number) with the value unchanged, and a
\* daily reading keeps its reported date and value.
C30_PerReadingNormalization ==
    /\ call.fn = "format_raw_data"
       => /\ Len(call.ret) = Len(call.args[1])
          /\ \A i \in 1..Len(call.args[1]) :
                 call.ret[i] = (IF call.args[1][i].interval_length # ""
                                THEN AtIntervalStart(call.args[1][i])
                                ELSE AsReported(call.args[1][i]))
    /\ call.fn = "format_load_curve"
       => \A i \in 1..Len(call.args[1]) :
              call.ret[i] = AtIntervalStart(call.args[1][i])
    /\ call.fn = "format_daily_data"
       => \A i \in 1..Len(call.args[1]) :
              call.ret[i] = AsReported(call.args[1][i])

\* a batch of a daily reading followed by a 30-minute load-curve reading:
\* the first keeps its date, the second moved back by 30 minutes
C30_Witness ==
    /\ call.fn = "format_raw_data"
    /\ Len(call.args[1]) = 2
    /\ call.args[1][1].interval_length = ""
    /\ call.args[1][2].interval_length = "PT30M"
    /\ call.ret[1].date = call.args[1][1].date
    /\ call.ret[2].date = call.args[1][2].date - 30
    /\ call.ret[2].value = call.args[1][2].value

\* the energy writes task r logs in this step
NewEnergyWrites(r) ==
    {i \in 1..Len(tasks'[r].writes) :
        i > Len(tasks[r].writes) /\ tasks'[r].writes[i].id = EnergyId}

\* the energy points stored at or before the last start task r has read
StoredUpTo(st, r) ==
    {p \in st[EnergyId].pts : p.start <= tasks[r].last_stat.start}

\* C31: every energy statistic an incremental run writes starts strictly
\* after the last stored start the run read at its beginning, and the step
\* that writes it leaves every point stored at or before that start as it
\* was (no stored hour overwritten, no reading added to the sum twice).
C31_WritesStrictlyLater ==
    /\ [](\A r \in Slots :
            (tasks[r].mode = "incr" /\ tasks[r].last_stat.found)
            => \A i \in WritesOf(tasks[r], EnergyId) :
                  \A k \in 1..Len(tasks[r].writes[i].stats) :
                      tasks[r].writes[i].stats[k].start
                          > tasks[r].last_stat.start)
    /\ [][\A r \in Slots :
            ( /\ tasks[r].mode = "incr"
              /\ tasks[r].last_stat.found
              /\ NewEnergyWrites(r) # {} )
            => StoredUpTo(store, r) = StoredUpTo(store', r)]_vars

\* an incremental run has written a point that starts one hour after the
\* last stored start it read (the midnight of first_day, the earliest
\* date the fetch may ask for)
C31_Witness ==
    \E r \in Slots :
        /\ tasks[r].mode = "incr"
        /\ tasks[r].last_stat.found
        /\ \E i \in WritesOf(tasks[r], EnergyId) :
              \E k \in 1..Len(tasks[r].writes[i].stats) :
                  /\ tasks[r].writes[i].stats[k].start
                        = tasks[r].last_stat.start + HourMin
                  /\ tasks[r].writes[i].stats[k].start
                        = Midnight(tasks[r].first_day)

\* the hours of a stored series
StoredStarts(id) == {p.start : p \in store[id].pts}

\* C32: with cost rules configured the cost series keeps up with the
\* energy series: every hour whose energy statistic a run persisted, and
\* that a rule prices, gets its cost statistic in the same run or, when
\* the cost step of that run failed after the energy write, from a later
\* run; so once a later run has persisted its costs and ended, no stored
\* energy hour is without a cost statistic (the rule prices every hour).
C32_CostsKeepUp ==
    \A r \in Slots :
        ( /\ tasks[r].pc = "done"
          /\ tasks[r].result = "ok"
          /\ tasks[r].mode = "incr"
          /\ WritesOf(tasks[r], CostId) # {}
          /\ \A q \in Slots \ {r} : ~InFlight(q) )
        => StoredStarts(EnergyId) \subseteq StoredStarts(CostId)

\* task r is suspended on a remote call of the fetch
Fetching(t) == t.pc \in {"tier1", "daily"}

\* C33: a tiered fetch makes at most three remote calls, one load-curve
\* call followed by at most two daily calls, never asks for the same date
\* window twice, and every answer it gets, success or failure, either
\* issues the next call or ends the fetch.
C33_AtMostThreeCalls ==
    /\ [](\A r \in Slots :
            LET calls == tasks[r].calls
            IN  /\ Len(calls) <= 3
                /\ \A i \in 1..Len(calls) :
                       calls[i].kind = (IF i = 1 THEN "load_curve" ELSE "daily")
                /\ \A i \in 1..Len(calls) : \A j \in 1..Len(calls) :
                       i < j => <<calls[i].from, calls[i].to>>
                                    # <<calls[j].from, calls[j].to>>)
    /\ [][\A r \in Slots :
            (Fetching(tasks[r]) /\ tasks'[r] # tasks[r])
            => \/ ~Fetching(tasks'[r])
               \/ Len(tasks'[r].calls) = Len(tasks[r].calls) + 1]_vars

\* a fetch has ended after three calls: the load-curve call failed, the
\* first daily call succeeded, the second failed
C33_Witness ==
    \E r \in Slots :
        /\ tasks[r].pc = "done"
        /\ Len(tasks[r].calls) = 3
        /\ tasks[r].calls[1].outcome = "api"
        /\ tasks[r].calls[2].outcome = "ok"
        /\ tasks[r].calls[3].outcome = "conn"

\* the step in which an initializing run r returns normally without having
\* written: its fetch has given no reading
EndsEmpty(r) ==
    /\ Ends(r)
    /\ tasks'[r].mode = "init"
    /\ tasks'[r].result = "ok"
    /\ tasks'[r].writes = <<>>

\* C34: an initializing run whose fetch returns no readings writes nothing,
\* neither an energy nor a cost series: the step that ends it leaves the
\* store as it was, a meter that was new is still new, and a run that finds
\* the meter new initializes again, fetching without lower bound from
\* today - 7 and writing its series from base 0.
C34_EmptyInitLeavesMeterNew ==
    /\ [][\A r \in Slots :
            EndsEmpty(r)
            => /\ store' = store
               /\ is_new_prm(store) => is_new_prm(store')]_vars
    /\ [][\A q \in Slots :
            ( /\ tasks[q].pc = "is_new"
              /\ tasks'[q].pc \notin {"is_new", "done"}
              /\ is_new_prm(store) )
            => /\ tasks'[q].mode = "init"
               /\ tasks'[q].first_day = None
               /\ tasks'[q].calls[1].from = tasks'[q].today - 7]_vars
    /\ [](\A r \in Slots :
            tasks[r].mode = "init"
            => \A i \in 1..Len(tasks[r].writes) :
                  ContinuesFrom(tasks[r].writes[i].stats, 0))

\* the setup-time run has ended "ok" on a fetch without readings, the
\* store holds no series, and the scheduled run is initializing again
C34_Witness ==
    \E r \in Slots :
        /\ tasks[r].mode = "init"
        /\ tasks[r].pc = "tier1"
        /\ tasks[r].first_day = None
        /\ created = 2
        /\ \A q \in Slots \ {r} : tasks[q].pc = "idle"
        /\ status = "ok"
        /\ last_sync # None
        /\ \A id \in SeriesIds : store[id] = NoSeries

====
